---- MODULE Spec2Model ----
(***************************************************************************)
(* Model of the closed-loop simulation search of template-fmu-runner:      *)
(* FMU runner -> Validator -> Test Generator -> (resubmit), and the        *)
(* read-side family resolver.                                              *)
(*                                                                         *)
(* Python values are wrapped in one-field records so that values of        *)
(* different Python types can live in the same dict:                       *)
(*   [int |-> n]   int            [flt |-> h]   float, in 1/FScale units   *)
(*   [str |-> s]   str            [bool |-> b]  bool                       *)
(*   [none |-> TRUE] None         [dict |-> f]  dict    [list |-> q] list  *)
(* A dict is a function from field names to values; a message key is a     *)
(* sequence of atomic tokens, "_gen_" being one token.                     *)
(* Timestamps other than the one inside a user run key are left out.       *)
(***************************************************************************)
EXTENDS Integers, Sequences, FiniteSets, TLC

\* ------------------------------------------------------------------------
\* Bounds of the model
\* ------------------------------------------------------------------------
\* rows of input_data of a simulation result
MaxRows == 2
\* largest NUM_TESTS of the Test Generator taken alone
MaxNumTests == 2
\* largest NUM_TESTS of the closed loop
MaxLoopTests == 1
\* redeliveries of the at-least-once transport, over all consumers
MaxRedeliver == 1
\* user submissions
MaxSubmits == 2
\* generated variants of a root in the store of the API
MaxVariants == 2
\* calls of the methods of DataLakeQuery
MaxCalls == 2
\* moves of the clock between the steps of the API service
MaxTicks == 2
\* messages the background consumer polls
MaxPolled == 3
\* request handlers that run get_related_runs at the same time
MaxHandlers == 2

\* fixed-point unit of a float: 1.0 is FScale
FScale == 100

\* ------------------------------------------------------------------------
\* Python values
\* ------------------------------------------------------------------------
PyInt(n) == [int |-> n]
PyFloat(h) == [flt |-> h]
PyStr(s) == [str |-> s]
PyBool(b) == [bool |-> b]
PyNone == [none |-> TRUE]
PyDict(f) == [dict |-> f]
PyList(q) == [list |-> q]

IsInt(v) == DOMAIN v = {"int"}
IsFloat(v) == DOMAIN v = {"flt"}
IsStr(v) == DOMAIN v = {"str"}
IsBool(v) == DOMAIN v = {"bool"}
IsNone(v) == DOMAIN v = {"none"}
IsDict(v) == DOMAIN v = {"dict"}
IsList(v) == DOMAIN v = {"list"}

EmptyDict == <<>>

\* d.get(k, default)
Get(d, k, default) == IF k \in DOMAIN d THEN d[k] ELSE default

\* the strings float() parses, with their value in 1/FScale units
NumericStrings == ("2" :> 2 * FScale) @@ ("1" :> FScale) @@ ("0.5" :> FScale \div 2)

\* float(v) raises ValueError / TypeError
FloatRaises(v) ==
    \/ IsNone(v) \/ IsDict(v) \/ IsList(v)
    \/ (IsStr(v) /\ v.str \notin DOMAIN NumericStrings)

\* float(v) in 1/FScale units, where it does not raise
FloatOf(v) ==
    IF IsInt(v) THEN v.int * FScale
    ELSE IF IsFloat(v) THEN v.flt
    ELSE IF IsBool(v) THEN (IF v.bool THEN FScale ELSE 0)
    ELSE NumericStrings[v.str]

SeqMax(q) == CHOOSE x \in {q[i] : i \in DOMAIN q} : \A j \in DOMAIN q : q[j] <= x

\* ------------------------------------------------------------------------
\* Validator (src/validator/main.py)
\* ------------------------------------------------------------------------
criteria_of(row) ==
    LET config == Get(row, "config", EmptyDict)
        sc == Get(config, "success_criteria", PyDict(EmptyDict))
    IN sc.dict

field_name_of(row) == Get(criteria_of(row), "field_name", PyStr("position")).str
\* faulty variant of target_value_of: a missing target_value has no default
target_value_of_no_default(row) == Get(criteria_of(row), "target_value", PyNone)

target_value_of(row) == Get(criteria_of(row), "target_value", PyInt(0))

\* values = [point.get(field_name) for point in input_data if field_name in point]
values_of(row) ==
    LET fn == field_name_of(row)
        Has(point) == fn \in DOMAIN point
        present == SelectSeq(Get(row, "input_data", <<>>), Has)
    IN [i \in DOMAIN present |-> present[i][fn]]

\* faulty variant of non_null_values: None counts as 0 instead of being dropped
non_null_values_zeroed(row) ==
    LET values == values_of(row)
    IN [i \in DOMAIN values |-> IF IsNone(values[i]) THEN PyInt(0) ELSE values[i]]

\* the values float() is applied to: [.. for v in values if v is not None]
non_null_values(row) ==
    LET NotNone(v) == ~IsNone(v)
    IN SelectSeq(values_of(row), NotNone)

Verdict(fn, calc, target, passed, reason) ==
    [metric |-> <<"max_", fn>>, calculated_value |-> calc, target_value |-> target,
     passed |-> passed, reason |-> reason]

\* faulty variants of meets_target: the boundary excluded; the comparison reversed
meets_target_strict(calculated, target) == calculated > target
meets_target_reversed(calculated, target) == calculated <= target

\* the comparison of the maximum with the target: calculated >= float(target_value)
meets_target(calculated, target) == calculated >= target

validation_result(row) ==
    LET fn == field_name_of(row)
        target == target_value_of(row)
        values == values_of(row)
        nn == non_null_values(row)
    IN IF values = <<>>
       THEN Verdict(fn, PyNone, target, FALSE, "no_data")
       ELSE IF \E i \in DOMAIN nn : FloatRaises(nn[i])
       THEN Verdict(fn, PyNone, target, FALSE, "convert_error")
       ELSE IF nn = <<>>
       THEN Verdict(fn, PyNone, target, FALSE, "no_numeric")
       ELSE IF FloatRaises(target)
       THEN Verdict(fn, PyNone, target, FALSE, "convert_error")
       ELSE LET numeric_values == [i \in DOMAIN nn |-> FloatOf(nn[i])]
                calculated == SeqMax(numeric_values)
                passed == meets_target(calculated, FloatOf(target))
            IN Verdict(fn, PyFloat(calculated), target, passed,
                       IF passed THEN "meets" ELSE "below")

\* faulty variant of validate_simulation: the verdict-tagged row is marked as a user's
validate_simulation_as_user(row) ==
    ("validation" :> validation_result(row)) @@ ("source" :> "user") @@ row

\* row["validation"] = {...}; return row
validate_simulation(row) == ("validation" :> validation_result(row)) @@ row

\* sdf.filter(lambda row: row.get("validation", {}).get("passed", False))
success_filter(row) == Get(Get(row, "validation", EmptyDict), "passed", FALSE)
\* faulty variant of failure_filter: the 'not' is missing
failure_filter_unnegated(row) == Get(Get(row, "validation", EmptyDict), "passed", TRUE)

\* sdf.filter(lambda row: not row.get("validation", {}).get("passed", True))
failure_filter(row) == ~Get(Get(row, "validation", EmptyDict), "passed", TRUE)

\* ------------------------------------------------------------------------
\* Mutation engine (src/test-generator/main.py)
\* ------------------------------------------------------------------------
\* quantiles of random.uniform(0.02, 0.20) and random.uniform(0.10, 0.30), in percent
NarrowPct == <<2, 20>>
WidePct == <<10, 30>>
Quantiles == DOMAIN NarrowPct
Directions == {-1, 1}

\* round(num / den) of Python 3: to nearest, ties to even (den > 0)
RoundHalfEven(num, den) ==
    LET q == num \div den
        r == num % den
    IN IF 2 * r < den THEN q
       ELSE IF 2 * r > den THEN q + 1
       ELSE IF q % 2 = 0 THEN q ELSE q + 1

\* isinstance(v, (int, float)); bool is a subclass of int
IsNumber(v) == IsInt(v) \/ IsFloat(v) \/ IsBool(v)

\* u is the quantile drawn by random.uniform, direction the random.choice
randomize_value(value, use_wide, u, direction) ==
    LET pct == IF use_wide THEN WidePct[u] ELSE NarrowPct[u]
        factor == 100 + direction * pct
    IN IF IsInt(value) THEN PyInt(RoundHalfEven(value.int * factor, 100))
       ELSE IF IsBool(value) THEN PyInt(RoundHalfEven((IF value.bool THEN 1 ELSE 0) * factor, 100))
       ELSE PyFloat(RoundHalfEven(value.flt * factor, 100))

HasParameters(config) == "parameters" \in DOMAIN config /\ IsDict(config["parameters"])

\* all_numeric_paths: the candidates of the wide perturbation
all_numeric_paths(config) ==
    (IF HasParameters(config)
     THEN {<<"parameters", k>> : k \in {pk \in DOMAIN config["parameters"].dict :
                                         IsNumber(config["parameters"].dict[pk])}}
     ELSE {})
    \cup {<<"None", k>> : k \in {tk \in DOMAIN config :
                                   tk # "parameters" /\ tk # "success_criteria" /\ IsNumber(config[tk])}}

\* every field randomize_value is applied to by the second loop
perturbed_paths(config) ==
    (IF HasParameters(config)
     THEN {<<"parameters", k>> : k \in {pk \in DOMAIN config["parameters"].dict :
                                         IsNumber(config["parameters"].dict[pk])}}
     ELSE {})
    \cup {<<"None", k>> : k \in {tk \in DOMAIN config :
                                   /\ tk # "success_criteria"
                                   /\ ~(tk = "parameters" /\ IsDict(config[tk]))
                                   /\ IsNumber(config[tk])}}

Min(a, b) == IF a < b THEN a ELSE b

\* num_outliers = min(random.randint(1, 3), len(all_numeric_paths))
num_outliers_choices(config) == {Min(k, Cardinality(all_numeric_paths(config))) : k \in 1..3}

\* the random draws of one randomize_config call
Draws(config) ==
    {[outlier_paths |-> o, u |-> uf, direction |-> df] :
        o \in {c \in SUBSET all_numeric_paths(config) : Cardinality(c) \in num_outliers_choices(config)},
        uf \in [perturbed_paths(config) -> Quantiles],
        df \in [perturbed_paths(config) -> Directions]}

\* the perturbation of one numeric field, wide if its path was selected as an outlier
randomize_at(value, path, draw) ==
    randomize_value(value, path \in draw.outlier_paths, draw.u[path], draw.direction[path])

\* the 'parameters' branch: new_params
randomize_parameters(params, draw) ==
    [pk \in DOMAIN params |->
        IF IsNumber(params[pk]) THEN randomize_at(params[pk], <<"parameters", pk>>, draw)
        ELSE params[pk]]

\* faulty variant of randomize_config: success_criteria is treated like every other field
randomize_config_drifting(config, draw) ==
    [key \in DOMAIN config |->
        IF key = "success_criteria" /\ IsNumber(config[key])
        THEN randomize_value(config[key], FALSE, Len(NarrowPct), -1)
        ELSE IF key = "parameters" /\ IsDict(config[key])
        THEN PyDict(randomize_parameters(config[key].dict, draw))
        ELSE IF IsNumber(config[key]) THEN randomize_at(config[key], <<"None", key>>, draw)
        ELSE config[key]]

randomize_config(config, draw) ==
    [key \in DOMAIN config |->
        IF key = "success_criteria" THEN config[key]
        ELSE IF key = "parameters" /\ IsDict(config[key])
        THEN PyDict(randomize_parameters(config[key].dict, draw))
        ELSE IF IsNumber(config[key]) THEN randomize_at(config[key], <<"None", key>>, draw)
        ELSE config[key]]

\* ------------------------------------------------------------------------
\* Lineage keys and the Test Generator (src/test-generator/main.py)
\* ------------------------------------------------------------------------
GEN == "_gen_"
Digit == <<"0", "1", "2", "3", "4", "5", "6", "7", "8", "9">>

RECURSIVE DecStr(_)
\* str(n) for n >= 0, as a sequence of digit tokens
DecStr(n) == IF n < 10 THEN <<Digit[n + 1]>> ELSE DecStr(n \div 10) \o <<Digit[(n % 10) + 1]>>

\* faulty variant of child_key: the loop index is used as it is (0-based)
child_key_zero_based(message_key, i) == message_key \o <<GEN>> \o DecStr(i - 1)

\* f"{message_key}_gen_{i}"
child_key(message_key, i) == message_key \o <<GEN>> \o DecStr(i)

UnknownKey == <<"unknown">>

\* what randomize_config(config) can return, over its random draws
randomized_configs(config) == {randomize_config(config, draw) : draw \in Draws(config)}

\* faulty variant of new_payload: the payload names itself as its parent
new_payload_own_parent(row, i, new_config) ==
    LET message_key == Get(row, "message_key", UnknownKey)
    IN [message_key |-> child_key(message_key, i),
        model_filename |-> Get(row, "model_filename", <<>>),
        model_s3_path |-> Get(row, "model_s3_path", <<>>),
        input_data |-> <<>>,
        config |-> new_config,
        source |-> "system",
        parent_key |-> child_key(message_key, i)]

\* the payload built by iteration i - 1 of the loop of generate_test_payloads, new_config
\* being what randomize_config(original_config) returned
new_payload(row, i, new_config) ==
    LET message_key == Get(row, "message_key", UnknownKey)
    IN [message_key |-> child_key(message_key, i),
        model_filename |-> Get(row, "model_filename", <<>>),
        model_s3_path |-> Get(row, "model_s3_path", <<>>),
        input_data |-> <<>>,
        config |-> new_config,
        source |-> "system",
        parent_key |-> message_key]

\* faulty variants of generates_for: only "system" is skipped; nothing is skipped
generates_unless_system(row) == Get(row, "source", "unknown") # "system"
generates_always(row) == TRUE

\* the loop guard of process_failure: generate only for user-initiated failures
generates_for(row) == Get(row, "source", "unknown") = "user"

\* ------------------------------------------------------------------------
\* FMU runner (src/fmu-runner/main.py)
\* ------------------------------------------------------------------------
FMU == ".fmu"

\* should_process(model_filename) of fmu_executor: the file is an FMU
should_process(model_filename) ==
    model_filename # <<>> /\ model_filename[Len(model_filename)] = FMU

\* what run_fmu_simulation returns: the external simulation engine
SimResults ==
    {[status |-> "ok", input_data |-> <<[time |-> PyFloat(0), h |-> PyFloat(2 * FScale)]>>]}

\* how one call of process_message ends: an exception ([raised |-> "get_fmu_path"] or
\* [raised |-> "run_fmu_simulation"]), or run_fmu_simulation returns a result
Outcomes == {[raised |-> "run_fmu_simulation"]} \cup {[result |-> r] : r \in SimResults}

\* config after 'if "start_time" not in config: ...' (the dict is changed in place)
with_time_defaults(config) ==
    config @@ ("start_time" :> PyFloat(0)) @@ ("stop_time" :> PyFloat(10 * FScale))

\* faulty variant of source_of_request: the runner stamps every result as user-initiated
source_always_user(row) == "user"

\* the source field of the output: row.get("source", "user")
source_of_request(row) == Get(row, "source", "user")

process_message(row, outcome) ==
    LET message_key == Get(row, "message_key", UnknownKey)
        model_filename == Get(row, "model_filename", <<>>)
        base == [message_key |-> message_key,
                 model_filename |-> model_filename,
                 source |-> source_of_request(row)]
    IN IF "result" \in DOMAIN outcome
       THEN base @@ [config |-> with_time_defaults(Get(row, "config", EmptyDict)),
                     status |-> outcome.result.status,
                     error_message |-> Get(outcome.result, "error_message", PyNone),
                     input_data |-> outcome.result.input_data]
       ELSE base @@ [config |-> IF outcome.raised = "run_fmu_simulation" /\ "config" \in DOMAIN row
                                THEN with_time_defaults(row["config"])
                                ELSE Get(row, "config", EmptyDict),
                     status |-> "error",
                     error_message |-> PyStr(outcome.raised),
                     input_data |-> <<>>]

\* ------------------------------------------------------------------------
\* HTTP API: submission (src/http-api-source/main.py)
\* ------------------------------------------------------------------------
\* f"{timestamp}_{model_filename}", the timestamp having a resolution of one second
generate_message_key(timestamp, model_filename) == <<timestamp, "_">> \o model_filename

\* the payload post_simulation publishes
user_payload(timestamp, model_filename, input_data, config) ==
    [message_key |-> generate_message_key(timestamp, model_filename),
     model_filename |-> model_filename,
     model_s3_path |-> <<"models/">> \o model_filename,
     input_data |-> input_data,
     config |-> config,
     source |-> "user"]

\* ------------------------------------------------------------------------
\* API service: the store of results and the family resolver
\* ------------------------------------------------------------------------
\* the code points of the characters of a token of a key
CodePoints ==
    ("T1" :> <<84, 49>>) @@ ("T2" :> <<84, 50>>) @@ ("_" :> <<95>>) @@ ("m" :> <<109>>) @@
    (".fmu" :> <<46, 102, 109, 117>>) @@ (".slx" :> <<46, 115, 108, 120>>) @@
    ("_gen_" :> <<95, 103, 101, 110, 95>>) @@
    ("unknown" :> <<117, 110, 107, 110, 111, 119, 110>>) @@
    [d \in {Digit[i] : i \in DOMAIN Digit} |-> <<47 + (CHOOSE i \in DOMAIN Digit : Digit[i] = d)>>]

RECURSIVE Text(_)
\* the characters of a key, as code points
Text(key) == IF key = <<>> THEN <<>> ELSE CodePoints[Head(key)] \o Text(Tail(key))

RECURSIVE SeqLess(_, _)
\* a < b for two Python strings given by their code points
SeqLess(a, b) ==
    IF b = <<>> THEN FALSE
    ELSE IF a = <<>> THEN TRUE
    ELSE IF Head(a) # Head(b) THEN Head(a) < Head(b)
    ELSE SeqLess(Tail(a), Tail(b))

\* a.startswith(prefix)
startswith(a, prefix) == Len(a) >= Len(prefix) /\ SubSeq(a, 1, Len(prefix)) = prefix

\* '_gen_' in key
contains_gen(key) == \E i \in DOMAIN key : key[i] = GEN

\* faulty variant of base_key_of: the key is cut at its first "_gen_" (split, not rsplit)
base_key_of_first_gen(message_key) ==
    IF contains_gen(message_key)
    THEN LET first == CHOOSE i \in DOMAIN message_key :
                         /\ message_key[i] = GEN
                         /\ \A j \in DOMAIN message_key : message_key[j] = GEN => i <= j
         IN SubSeq(message_key, 1, first - 1)
    ELSE message_key

\* faulty variant of base_key_of: the key that was asked is taken as the base key
base_key_of_asked(message_key) == message_key

\* message_key.rsplit("_gen_", 1)[0] if "_gen_" in message_key else message_key
base_key_of(message_key) ==
    IF contains_gen(message_key)
    THEN LET last == CHOOSE i \in DOMAIN message_key :
                        /\ message_key[i] = GEN
                        /\ \A j \in DOMAIN message_key : message_key[j] = GEN => j <= i
         IN SubSeq(message_key, 1, last - 1)
    ELSE message_key

\* LocalStore._flatten_result: the config and the verdict are spread over top-level keys
\* (the config is kept as well); where two keys flatten to one name, one of them stays
_flatten_result(result) ==
    LET config == IF "config" \in DOMAIN result THEN result["config"] ELSE EmptyDict
        validation == IF "validation" \in DOMAIN result THEN result["validation"] ELSE EmptyDict
        nested == {ck \in DOMAIN config : IsDict(config[ck])}
        config_names ==
            {"config_" \o ck : ck \in DOMAIN config \ nested} \cup
            UNION {{"config_" \o ck \o "_" \o ck2 : ck2 \in DOMAIN config[ck].dict} : ck \in nested}
        config_value(name) ==
            IF \E ck \in DOMAIN config \ nested : name = "config_" \o ck
            THEN config[CHOOSE ck \in DOMAIN config \ nested : name = "config_" \o ck]
            ELSE LET ck == CHOOSE ck \in nested :
                              \E ck2 \in DOMAIN config[ck].dict : name = "config_" \o ck \o "_" \o ck2
                     ck2 == CHOOSE ck2 \in DOMAIN config[ck].dict : name = "config_" \o ck \o "_" \o ck2
                 IN config[ck].dict[ck2]
    IN [name \in config_names |-> config_value(name)] @@
       [name \in {"validation_" \o vk : vk \in DOMAIN validation} |->
           validation[CHOOSE vk \in DOMAIN validation : name = "validation_" \o vk]] @@
       [key \in DOMAIN result \ {"validation"} |-> result[key]]

\* LocalStore.add_result: self._results[message_key] = flattened
add_result(_results, message_key, result) ==
    (message_key :> _flatten_result(result)) @@ _results

RECURSIVE sorted_by_natural_order(_)
\* faulty variant of sorted_by_message_key: shorter keys first, so that _gen_2 comes
\* before _gen_10
sorted_by_natural_order(related) ==
    IF related = {} THEN <<>>
    ELSE LET text(r) == Text(Get(r, "message_key", <<>>))
             before(a, b) == \/ Len(text(a)) < Len(text(b))
                             \/ Len(text(a)) = Len(text(b)) /\ SeqLess(text(a), text(b))
             first == CHOOSE r \in related : \A o \in related \ {r} : ~before(o, r)
         IN <<first>> \o sorted_by_natural_order(related \ {first})

RECURSIVE sorted_by_message_key(_)
\* a list of the results of the set related, in ascending order of message_key
sorted_by_message_key(related) ==
    IF related = {} THEN <<>>
    ELSE LET first == CHOOSE r \in related :
                         \A o \in related \ {r} :
                            ~SeqLess(Text(Get(o, "message_key", <<>>)),
                                     Text(Get(r, "message_key", <<>>)))
         IN <<first>> \o sorted_by_message_key(related \ {first})

\* LocalStore.get_related_runs: the stored results of the family of message_key, in order
get_related_runs(_results, message_key) ==
    LET base_key == base_key_of(message_key)
    IN sorted_by_message_key(
           {_results[k] : k \in {k \in DOMAIN _results :
                                    k = base_key \/ startswith(k, base_key \o <<GEN>>)}})

\* r.get('validation_calculated_value', 0) or 0, in 1/FScale units
calculated_value_key(r) ==
    LET v == Get(r, "validation_calculated_value", PyInt(0))
    IN IF IsNone(v) THEN 0 ELSE FloatOf(v)

\* faulty variant of replaces_best: a later run with an equal key takes the place of the best
replaces_best_on_tie(candidate, best) == candidate >= best

\* max() keeps the first of the largest: a later item replaces it only if its key is larger
replaces_best(candidate, best) == candidate > best

RECURSIVE max_index(_, _, _)
\* the index max(runs, key=...) ends with, having looked at runs[1..i-1] with best so far
max_index(keys, i, best) ==
    IF i > Len(keys) THEN best
    ELSE max_index(keys, i + 1, IF replaces_best(keys[i], keys[best]) THEN i ELSE best)

\* the runs of a family that passed: r.get('validation_passed') is True
passing_runs_of(related_runs) ==
    LET is_passing(r) == "validation_passed" \in DOMAIN r /\ r["validation_passed"] = TRUE
    IN SelectSeq(related_runs, is_passing)

\* faulty variant of original_run: the last run of the family stands for the family
original_run_last(related_runs) == related_runs[Len(related_runs)]

\* the first run whose key holds no '_gen_', or else the first run
original_run(related_runs) ==
    LET is_original(r) == ~contains_gen(Get(r, "message_key", <<>>))
        originals == SelectSeq(related_runs, is_original)
    IN IF originals # <<>> THEN originals[1] ELSE related_runs[1]

\* faulty variant of family_total_runs: only the runs that passed are counted
family_total_runs_passing(related_runs) == Len(passing_runs_of(related_runs))

\* '_family_total_runs': len(related_runs)
family_total_runs(related_runs) == Len(related_runs)

\* DataLakeQuery.get_family_result, from 'if not related_runs' on
family_result_of(related_runs) ==
    LET passing_runs == passing_runs_of(related_runs)
        keys == [i \in DOMAIN passing_runs |-> calculated_value_key(passing_runs[i])]
        best_run == passing_runs[max_index(keys, 2, 1)]
    IN IF related_runs = <<>> THEN PyNone
       ELSE IF passing_runs # <<>>
       THEN PyDict(("_family_passed" :> TRUE) @@
                   ("_family_total_runs" :> family_total_runs(related_runs)) @@
                   ("_family_passed_count" :> Len(passing_runs)) @@
                   ("_is_variant" :> contains_gen(Get(best_run, "message_key", <<>>))) @@
                   best_run)
       ELSE PyDict(("_family_passed" :> FALSE) @@
                   ("_family_total_runs" :> family_total_runs(related_runs)) @@
                   ("_family_passed_count" :> 0) @@
                   ("_is_variant" :> FALSE) @@
                   original_run(related_runs))

\* DataLakeQuery.get_family_result, with the local store
get_family_result(_results, message_key) ==
    family_result_of(get_related_runs(_results, message_key))

\* faulty variant of status_of: an empty answer is sent as a result
status_of_always_ok(result) == "200"

\* get_run_result: 404 "Run not found" if not result, else 200
status_of(result) == IF IsNone(result) \/ (IsDict(result) /\ result.dict = EmptyDict) THEN "404" ELSE "200"

\* ------------------------------------------------------------------------
\* API service: DataLakeQuery on the data lake, its retries and its cache
\* ------------------------------------------------------------------------
MAX_RETRIES == 3
\* seconds
RETRY_DELAY == 1
\* seconds
CACHE_TTL == 300

\* cache_key = f"related:{base_key}"
cache_key_of(base_key) == <<"related:">> \o base_key

\* faulty variant of is_fresh: an entry whose age is the TTL is still served
is_fresh_at_ttl(cached_time, now) == now - cached_time <= CACHE_TTL

\* time.time() - cached_time < CACHE_TTL
is_fresh(cached_time, now) == now - cached_time < CACHE_TTL

\* 'if cache_key in _cache' and the entry is fresh
cache_hit(_cache, cache_key, now) ==
    cache_key \in DOMAIN _cache /\ is_fresh(_cache[cache_key].cached_time, now)

\* faulty variant of caches_result: every query result is cached
caches_result_always(rows) == TRUE

\* 'if not df.empty': the query result is cached and returned
caches_result(rows) == rows # <<>>

\* faulty variant of cache_insert: the entry is not written
cache_insert_dropped(_cache, cache_key, now, rows) == _cache

\* _cache[cache_key] = (time.time(), result)
cache_insert(_cache, cache_key, now, rows) ==
    (cache_key :> [cached_time |-> now, cached_data |-> rows]) @@ _cache

\* faulty variant of retries_left: one attempt more
retries_left_inclusive(attempt) == attempt <= MAX_RETRIES

\* 'if attempt < MAX_RETRIES': another attempt follows, after a sleep
retries_left(attempt) == attempt < MAX_RETRIES

\* SELECT * FROM results WHERE message_key = base_key OR starts_with(message_key,
\* base_key + '_gen_') ORDER BY message_key ASC, on the rows the table holds
related_query(table, base_key) ==
    sorted_by_message_key(
        {r \in table : \/ Get(r, "message_key", <<>>) = base_key
                       \/ startswith(Get(r, "message_key", <<>>), base_key \o <<GEN>>)})

\* SELECT * FROM results WHERE message_key = ... LIMIT 1: the rows it may return
result_query(table, message_key) == {r \in table : Get(r, "message_key", <<>>) = message_key}

\* {"message_key": message_key, **point}
timeseries_point(message_key, point) == point @@ ("message_key" :> message_key)

\* faulty variant of add_timeseries: the points are appended to those the key has
add_timeseries_appending(_timeseries, message_key, input_data) ==
    (message_key :> (Get(_timeseries, message_key, <<>>) \o
                     [i \in DOMAIN input_data |-> timeseries_point(message_key, input_data[i])]))
    @@ _timeseries

\* LocalStore.add_result: self._timeseries[message_key] = [], then one append per point
add_timeseries(_timeseries, message_key, input_data) ==
    (message_key :> [i \in DOMAIN input_data |-> timeseries_point(message_key, input_data[i])])
    @@ _timeseries

\* LocalStore.get_timeseries_by_message_key: list(self._timeseries.get(message_key, []))
local_timeseries(_timeseries, message_key) == Get(_timeseries, message_key, <<>>)

\* ------------------------------------------------------------------------
\* API service: the background consumer (src/http-api-source/kafka_consumer.py)
\* ------------------------------------------------------------------------
\* what consumer.poll returns: a Kafka error, or a payload that is not UTF-8, is not
\* JSON, or is the JSON text of a value
KafkaError == [payload |-> "error"]
NotUtf8 == [payload |-> "not_utf8"]
NotJson == [payload |-> "not_json"]
JsonOf(value) == [payload |-> "json", value |-> value]

\* a point of input_data is a mapping, as {"message_key": message_key, **point} needs
is_mapping(point) == ~IsInt(point) /\ ~IsNone(point)

\* the points add_result appends before '**point' raises TypeError (all of them if none does)
appended_points(input_data) ==
    LET bad == {i \in DOMAIN input_data : ~is_mapping(input_data[i])}
    IN IF bad = {} THEN input_data
       ELSE SubSeq(input_data, 1, (CHOOSE i \in bad : \A j \in bad : i <= j) - 1)

\* how the handling of a polled message fails, "none" if it does not
consume_failure(msg) ==
    IF msg.payload = "error" THEN "KafkaError"
    ELSE IF msg.payload = "not_utf8" THEN "UnicodeDecodeError"
    ELSE IF msg.payload = "not_json" THEN "JSONDecodeError"
    ELSE IF ~IsDict(msg.value) THEN "AttributeError"
    ELSE IF appended_points(Get(msg.value.dict, "input_data", <<>>))
               # Get(msg.value.dict, "input_data", <<>>) THEN "TypeError"
    ELSE "none"

\* the message gets as far as store.add_result, which writes before it may raise
reaches_store(msg) == consume_failure(msg) \in {"none", "TypeError"}

\* faulty variant of caught_in_loop: the loop lacks the outer 'except Exception'
caught_in_loop_json_only(failure) == failure \in {"KafkaError", "JSONDecodeError"}

\* 'if msg.error(): continue', 'except json.JSONDecodeError' and 'except Exception' are
\* inside 'while True': none of these failures ends the loop
caught_in_loop(failure) ==
    failure \in {"KafkaError", "JSONDecodeError", "UnicodeDecodeError", "AttributeError",
                 "TypeError"}

\* ------------------------------------------------------------------------
\* Inputs of the closed loop
\* ------------------------------------------------------------------------
Timestamps == {"T1"}
ModelFiles == {<<"m", FMU>>, <<"m", ".slx">>}
Criteria(target) == PyDict([field_name |-> PyStr("h"), target_value |-> target])
UserConfigs ==
    {[success_criteria |-> Criteria(PyInt(1)),
      start_time |-> PyInt(0), stop_time |-> PyInt(1)]}
UserInputs == {<<[time |-> PyFloat(0), h |-> PyFloat(0)]>>}

\* ------------------------------------------------------------------------
\* Data-lake sink (src/quix-datalake-timeseries-sink/main.py)
\* ------------------------------------------------------------------------
\* the top-level fields flatten_for_results never copies
skip_fields == {"validation", "config", "input_data", "model_data"}

\* bool(validation): None, an empty list and an empty mapping are false
validation_truthy(validation) ==
    IF IsNone(validation) THEN FALSE
    ELSE IF IsList(validation) THEN validation.list # <<>>
    ELSE DOMAIN validation # {}

\* 'passed' in validation: a key of a mapping, or an element of a list
passed_in(validation) ==
    IF IsList(validation)
    THEN \E i \in DOMAIN validation.list : validation.list[i] = PyStr("passed")
    ELSE "passed" \in DOMAIN validation

\* has_validation_result: bool(validation and 'passed' in validation)
has_validation_result(row) ==
    LET validation == Get(row, "validation", EmptyDict)
    IN validation_truthy(validation) /\ passed_in(validation)

\* faulty variant of flattened_validation: the verdict's keys are copied without the prefix
flattened_validation_unprefixed(validation) ==
    IF validation_truthy(validation) THEN validation ELSE EmptyDict

\* the part of flatten_for_results that spreads the verdict: validation_<key> columns
flattened_validation(validation) ==
    IF validation_truthy(validation)
    THEN [name \in {"validation_" \o key : key \in DOMAIN validation} |->
             validation[CHOOSE key \in DOMAIN validation : name = "validation_" \o key]]
    ELSE EmptyDict

\* flatten_for_results on a row whose validation is a mapping (on any other truthy value
\* validation.items() raises): the scalar top-level fields (those of the rows of the pipeline
\* outside skip_fields are text, numbers or None), the verdict as validation_<key>, the
\* scalar parameters as config_<key> (the config's own scalars where it has no
\* `parameters`), and ts_ms, the time of the verdict or else the sink's clock
flatten_for_results(row, ts_ms) ==
    LET validation == Get(row, "validation", EmptyDict)
        config == Get(row, "config", EmptyDict)
        params == IF config = EmptyDict THEN EmptyDict
                  ELSE IF "parameters" \notin DOMAIN config THEN config
                  ELSE IF IsDict(config["parameters"]) THEN config["parameters"].dict
                  ELSE EmptyDict
        scalar == {key \in DOMAIN params : ~IsDict(params[key]) /\ ~IsList(params[key])}
    IN ("ts_ms" :> ts_ms) @@
       [name \in {"config_" \o key : key \in scalar} |->
           params[CHOOSE key \in scalar : name = "config_" \o key]] @@
       flattened_validation(validation) @@
       [key \in DOMAIN row \ skip_fields |-> row[key]]

\* ------------------------------------------------------------------------
\* Inputs of the data lake
\* ------------------------------------------------------------------------
\* a row of the table "results": the columns the family resolver reads
LakeRow(message_key) ==
    [message_key |-> message_key, validation_passed |-> FALSE,
     validation_calculated_value |-> PyNone]

\* what the table "timeseries" may answer
LakeTimeseries == {<<>>, <<[message_key |-> <<"T1", "_", "m", ".fmu">>, time |-> PyFloat(0)]>>}

\* ------------------------------------------------------------------------
\* State
\* ------------------------------------------------------------------------
VARIABLES
    simulation,          \* topic "simulation": run requests
    simulation_results,  \* topic "simulation-results"
    validation_success,  \* topic "validation-success"
    validation_failure,  \* topic "validation-failure"
    runnerDone,          \* requests the FMU runner has processed
    validatorDone,       \* results the Validator has processed
    generatorDone,       \* failures the Test Generator has processed
    generator,           \* position of handle_failure: pc, row, tests, next
    NUM_TESTS,           \* os.environ["NUM_TESTS"]
    submits,             \* number of user submissions so far
    redeliveries,        \* number of redeliveries (at-least-once transport) so far
    results,             \* LocalStore._results: message_key -> flattened result
    family_result,       \* GET /runs/<message_key>/result in progress: key and answer
    USE_LOCAL_STORE,     \* os.environ["USE_LOCAL_STORE"] = "true"
    lake_results,        \* table "results" of the data lake: a set of rows
    cache,               \* datalake_query._cache: cache key -> (timestamp, data)
    clock,               \* time.time(), in seconds
    call,                \* the call of a method of DataLakeQuery in progress, or the last
    calls,               \* number of calls of DataLakeQuery methods so far
    ticks,               \* number of times the clock has been moved on between steps
    served,              \* history: base key -> time and family of the last non-empty
                         \* family a get_related_runs call read from the data lake
    timeseries,          \* LocalStore._timeseries: message_key -> list of points
    consumer,            \* the background consumer thread: what poll returns, its position
    handlers             \* request handlers running get_related_runs at the same time

vars == <<simulation, simulation_results, validation_success, validation_failure,
          runnerDone, validatorDone, generatorDone, generator, NUM_TESTS,
          submits, redeliveries, results, family_result,
          USE_LOCAL_STORE, lake_results, cache, clock, call, calls, ticks, served,
          timeseries, consumer, handlers>>

\* the state of DataLakeQuery
datalake == <<USE_LOCAL_STORE, lake_results, cache, clock, call, calls, ticks, served>>

\* the state of the API service
api == <<results, timeseries, family_result, datalake, consumer, handlers>>

\* no call of DataLakeQuery has been made
NoCall ==
    [pc |-> "idle", op |-> "", message_key |-> <<>>, base_key |-> <<>>, attempt |-> 0,
     queries |-> 0, waits |-> 0, raised |-> 0, hit |-> FALSE, result |-> PyNone]

\* DataLakeQuery in local store mode, never called
DatalakeUnused ==
    /\ USE_LOCAL_STORE = TRUE
    /\ lake_results = {}
    /\ cache = EmptyDict
    /\ clock = 0
    /\ call = NoCall
    /\ calls = 0
    /\ ticks = 0
    /\ served = EmptyDict

\* the consumer thread before its first poll; no request handler in get_related_runs
NoConsumer ==
    [polled |-> <<>>, offset |-> 1, running |-> TRUE, errors |-> 0, committed |-> 0,
     pc |-> "poll", next |-> 1]
NoHandlers == <<>>

\* an empty local store, the consumer thread not yet polling, no concurrent handlers
BackgroundIdle ==
    /\ timeseries = EmptyDict
    /\ consumer = NoConsumer
    /\ handlers = NoHandlers

\* no request of the API is in progress
NoRequest == [message_key |-> <<>>, result |-> PyNone, status |-> ""]

topics == <<simulation, simulation_results, validation_success, validation_failure>>

GeneratorIdle == [pc |-> "idle", row |-> EmptyDict, tests |-> <<>>, next |-> 1]

Init ==
    /\ simulation = {}
    /\ simulation_results = {}
    /\ validation_success = {}
    /\ validation_failure = {}
    /\ runnerDone = {}
    /\ validatorDone = {}
    /\ generatorDone = {}
    /\ generator = GeneratorIdle
    /\ NUM_TESTS \in 0..MaxLoopTests
    /\ submits = 0
    /\ redeliveries = 0
    /\ results = EmptyDict
    /\ family_result = NoRequest
    /\ BackgroundIdle
    /\ DatalakeUnused

\* a consumer gets m: for the first time, or again (at-least-once delivery)
Deliver(done, m) ==
    \/ m \notin done /\ UNCHANGED redeliveries
    \/ m \in done /\ redeliveries < MaxRedeliver /\ redeliveries' = redeliveries + 1

\* post_simulation, called in the clock second timestamp
post_simulation(timestamp, model_filename, input_data, config) ==
    /\ submits < MaxSubmits
    /\ submits' = submits + 1
    /\ simulation' = simulation \cup {user_payload(timestamp, model_filename, input_data, config)}
    /\ UNCHANGED <<simulation_results, validation_success, validation_failure, runnerDone,
                   validatorDone, generatorDone, generator, NUM_TESTS, api, redeliveries>>

\* a user submits a run
Submit ==
    \E ts \in Timestamps, f \in ModelFiles, data \in UserInputs, config \in UserConfigs :
        post_simulation(ts, f, data, config)

\* FMU runner: sdf.filter(should_process) drops the message
RunnerSkip ==
    \E m \in simulation :
        /\ ~should_process(Get(m, "model_filename", <<>>))
        /\ Deliver(runnerDone, m)
        /\ runnerDone' = runnerDone \cup {m}
        /\ UNCHANGED <<topics, validatorDone, generatorDone, generator, NUM_TESTS, api, submits>>

\* FMU runner: sdf.apply(process_message).to_topic(output_topic)
RunnerProcess ==
    \E m \in simulation, outcome \in Outcomes :
        /\ should_process(Get(m, "model_filename", <<>>))
        /\ Deliver(runnerDone, m)
        /\ runnerDone' = runnerDone \cup {m}
        /\ simulation_results' = simulation_results \cup {process_message(m, outcome)}
        /\ UNCHANGED <<simulation, validation_success, validation_failure, validatorDone,
                       generatorDone, generator, NUM_TESTS, api, submits>>

\* Validator: validate, then route to the success or the failure topic
Validate ==
    \E m \in simulation_results :
        LET row == validate_simulation(m) IN
        /\ Deliver(validatorDone, m)
        /\ validatorDone' = validatorDone \cup {m}
        /\ validation_success' = IF success_filter(row) THEN validation_success \cup {row}
                                  ELSE validation_success
        /\ validation_failure' = IF failure_filter(row) THEN validation_failure \cup {row}
                                  ELSE validation_failure
        /\ UNCHANGED <<simulation, simulation_results, runnerDone, generatorDone, generator,
                       NUM_TESTS, api, submits>>

\* Test Generator: handle_failure gets a row; process_failure returns [] at once
\* (loop guard, or NUM_TESTS <= 0), or the loop of generate_test_payloads starts
GeneratorReceive ==
    \E m \in validation_failure :
        /\ generator.pc = "idle"
        /\ Deliver(generatorDone, m)
        /\ IF generates_for(m) /\ NUM_TESTS > 0
           THEN /\ generator' = [pc |-> "generate", row |-> m, tests |-> <<>>, next |-> 1]
                /\ UNCHANGED generatorDone
           ELSE /\ generatorDone' = generatorDone \cup {m}
                /\ UNCHANGED generator
        /\ UNCHANGED <<topics, runnerDone, validatorDone, NUM_TESTS, api, submits>>

\* faulty variant of GeneratorIterate: the children are numbered by a counter that goes on
\* over redeliveries (the number of requests published so far), not by the loop index
GeneratorIterateCounting ==
    /\ generator.pc = "generate"
    /\ \E new_config \in randomized_configs(Get(generator.row, "config", EmptyDict)) :
          LET tests == Append(generator.tests,
                              new_payload(generator.row,
                                          Cardinality(simulation) + Len(generator.tests) + 1,
                                          new_config))
          IN generator' = [generator EXCEPT !.tests = tests,
                              !.pc = IF Len(tests) < NUM_TESTS THEN "generate" ELSE "publish"]
    /\ UNCHANGED <<topics, runnerDone, validatorDone, generatorDone, NUM_TESTS, api, submits,
                   redeliveries>>

\* faulty variant of GeneratorIterate: the variant's config is written back into the row
\* (config.update(new_config)), so the next variant starts from the last one
GeneratorIterateInPlace ==
    /\ generator.pc = "generate"
    /\ \E new_config \in randomized_configs(Get(generator.row, "config", EmptyDict)) :
          LET tests == Append(generator.tests,
                              new_payload(generator.row, Len(generator.tests) + 1, new_config))
          IN generator' = [generator EXCEPT !.tests = tests,
                              !.row = ("config" :> new_config) @@ generator.row,
                              !.pc = IF Len(tests) < NUM_TESTS THEN "generate" ELSE "publish"]
    /\ UNCHANGED <<topics, runnerDone, validatorDone, generatorDone, NUM_TESTS, api, submits,
                   redeliveries>>

\* one iteration of the loop of generate_test_payloads
GeneratorIterate ==
    /\ generator.pc = "generate"
    /\ \E new_config \in randomized_configs(Get(generator.row, "config", EmptyDict)) :
          LET tests == Append(generator.tests,
                              new_payload(generator.row, Len(generator.tests) + 1, new_config))
          IN generator' = [generator EXCEPT !.tests = tests,
                              !.pc = IF Len(tests) < NUM_TESTS THEN "generate" ELSE "publish"]
    /\ UNCHANGED <<topics, runnerDone, validatorDone, generatorDone, NUM_TESTS, api, submits,
                   redeliveries>>

\* one producer.produce of handle_failure; after the last one the handler returns
GeneratorPublish ==
    /\ generator.pc = "publish"
    /\ simulation' = simulation \cup {generator.tests[generator.next]}
    /\ IF generator.next < Len(generator.tests)
       THEN /\ generator' = [generator EXCEPT !.next = @ + 1]
            /\ UNCHANGED generatorDone
       ELSE /\ generator' = GeneratorIdle
            /\ generatorDone' = generatorDone \cup {generator.row}
    /\ UNCHANGED <<simulation_results, validation_success, validation_failure, runnerDone,
                   validatorDone, NUM_TESTS, api, submits, redeliveries>>

\* the Test Generator stops inside handle_failure and restarts: the row is redelivered
GeneratorCrash ==
    /\ generator.pc # "idle"
    /\ redeliveries < MaxRedeliver
    /\ redeliveries' = redeliveries + 1
    /\ generator' = GeneratorIdle
    /\ UNCHANGED <<topics, runnerDone, validatorDone, generatorDone, NUM_TESTS, api, submits>>

\* API service, background consumer: store.add_result(message_key, value) for a message of
\* the two validation topics
ConsumeResult ==
    \E value \in validation_success \cup validation_failure :
        /\ results' = add_result(results, Get(value, "message_key", UnknownKey), value)
        /\ timeseries' = add_timeseries(timeseries, Get(value, "message_key", UnknownKey),
                                        Get(value, "input_data", <<>>))
        /\ family_result' = NoRequest
        /\ UNCHANGED <<topics, runnerDone, validatorDone, generatorDone, generator, NUM_TESTS,
                       submits, redeliveries, datalake, consumer, handlers>>

\* API service, GET /runs/<message_key>/result: datalake.get_family_result(message_key)
get_run_result(message_key) ==
    /\ LET result == get_family_result(results, message_key)
       IN family_result' = [message_key |-> message_key, result |-> result,
                            status |-> status_of(result)]
    /\ UNCHANGED <<topics, runnerDone, validatorDone, generatorDone, generator, NUM_TESTS,
                   submits, redeliveries, results, timeseries, datalake, consumer, handlers>>

\* what the pipeline and the local store keep while DataLakeQuery runs
pipeline_and_store ==
    <<topics, runnerDone, validatorDone, generatorDone, generator, NUM_TESTS, submits,
      redeliveries, results, timeseries, family_result, consumer, handlers>>

\* a method of DataLakeQuery is entered (one request handler, one call after the other)
Enter(op, message_key) ==
    /\ call.pc \in {"idle", "returned"}
    /\ calls < MaxCalls
    /\ calls' = calls + 1

Started(op, message_key) == [NoCall EXCEPT !.op = op, !.message_key = message_key]

Returned(c, result) == [c EXCEPT !.pc = "returned", !.result = result]

\* after an attempt that gave nothing: sleep and try again, or give up with the default
AfterAttempt(c, default) ==
    IF retries_left(c.attempt) THEN [c EXCEPT !.pc = "sleep"] ELSE Returned(c, default)

\* faulty variant of AfterEmpty: an empty result is returned at once
AfterEmptyReturned(c, default) == Returned(c, default)

\* get_related_runs after a query that came back empty: the loop body falls through to the
\* same 'if attempt < MAX_RETRIES: time.sleep(RETRY_DELAY)' as after an exception
AfterEmpty(c, default) == AfterAttempt(c, default)

\* DataLakeQuery.get_related_runs, up to the first query: the local store answers, or
\* the cache does, or the retry loop begins
RelatedRunsCall(message_key) ==
    LET c == [Started("get_related_runs", message_key) EXCEPT
                 !.base_key = base_key_of(message_key)]
    IN /\ Enter("get_related_runs", message_key)
       /\ call' = IF USE_LOCAL_STORE
                  THEN Returned(c, PyList(get_related_runs(results, message_key)))
                  ELSE IF cache_hit(cache, cache_key_of(c.base_key), clock)
                  THEN Returned([c EXCEPT !.hit = TRUE],
                                PyList(cache[cache_key_of(c.base_key)].cached_data))
                  ELSE [c EXCEPT !.pc = "attempt"]
       /\ UNCHANGED <<pipeline_and_store, USE_LOCAL_STORE, lake_results, cache, clock, ticks,
                      served>>

\* one pass of the retry loop of get_related_runs: the query raises, or it returns the
\* rows the table holds now
RelatedRunsAttempt ==
    /\ call.pc = "attempt"
    /\ call.op = "get_related_runs"
    /\ \/ /\ call' = AfterAttempt([call EXCEPT !.queries = @ + 1, !.raised = @ + 1],
                                  PyList(<<>>))
          /\ UNCHANGED <<cache, served>>
       \/ LET rows == related_query(lake_results, call.base_key)
              c == [call EXCEPT !.queries = @ + 1]
          IN IF caches_result(rows)
             THEN /\ cache' = cache_insert(cache, cache_key_of(call.base_key), clock, rows)
                  /\ call' = Returned(c, PyList(rows))
                  /\ served' = IF rows # <<>>
                               THEN (call.base_key :> [time |-> clock, family |-> rows]) @@ served
                               ELSE served
             ELSE /\ call' = AfterEmpty(c, PyList(<<>>))
                  /\ UNCHANGED <<cache, served>>
    /\ UNCHANGED <<pipeline_and_store, USE_LOCAL_STORE, lake_results, clock, calls, ticks>>

\* time.sleep(RETRY_DELAY) between two attempts
RetrySleep ==
    /\ call.pc = "sleep"
    /\ clock' = clock + RETRY_DELAY
    /\ call' = [call EXCEPT !.pc = "attempt", !.attempt = @ + 1, !.waits = @ + 1]
    /\ UNCHANGED <<pipeline_and_store, USE_LOCAL_STORE, lake_results, cache, calls, ticks,
                   served>>

\* DataLakeQuery.get_result_by_message_key, up to the first query
ResultCall(message_key) ==
    LET c == Started("get_result_by_message_key", message_key)
    IN /\ Enter("get_result_by_message_key", message_key)
       /\ call' = IF USE_LOCAL_STORE
                  THEN Returned(c, IF message_key \in DOMAIN results
                                   THEN PyDict(results[message_key]) ELSE PyNone)
                  ELSE [c EXCEPT !.pc = "attempt"]
       /\ UNCHANGED <<pipeline_and_store, USE_LOCAL_STORE, lake_results, cache, clock, ticks,
                      served>>

\* one pass of the retry loop of get_result_by_message_key: only an exception is retried
ResultAttempt ==
    /\ call.pc = "attempt"
    /\ call.op = "get_result_by_message_key"
    /\ \/ call' = AfterAttempt([call EXCEPT !.queries = @ + 1, !.raised = @ + 1], PyNone)
       \/ /\ result_query(lake_results, call.message_key) = {}
          /\ call' = Returned([call EXCEPT !.queries = @ + 1], PyNone)
       \/ \E row \in result_query(lake_results, call.message_key) :
             call' = Returned([call EXCEPT !.queries = @ + 1], PyDict(row))
    /\ UNCHANGED <<pipeline_and_store, USE_LOCAL_STORE, lake_results, cache, clock, calls,
                   ticks, served>>

\* DataLakeQuery.get_timeseries_by_message_key, up to the first query
TimeseriesCall(message_key) ==
    LET c == Started("get_timeseries_by_message_key", message_key)
    IN /\ Enter("get_timeseries_by_message_key", message_key)
       /\ call' = IF USE_LOCAL_STORE
                  THEN Returned(c, PyList(local_timeseries(timeseries, message_key)))
                  ELSE [c EXCEPT !.pc = "attempt"]
       /\ UNCHANGED <<pipeline_and_store, USE_LOCAL_STORE, lake_results, cache, clock, ticks,
                      served>>

\* one pass of the retry loop of get_timeseries_by_message_key: only an exception is
\* retried; the table "timeseries" of the data lake answers with some list of points
TimeseriesAttempt ==
    /\ call.pc = "attempt"
    /\ call.op = "get_timeseries_by_message_key"
    /\ \/ call' = AfterAttempt([call EXCEPT !.queries = @ + 1, !.raised = @ + 1], PyList(<<>>))
       \/ \E points \in LakeTimeseries :
             call' = Returned([call EXCEPT !.queries = @ + 1], PyList(points))
    /\ UNCHANGED <<pipeline_and_store, USE_LOCAL_STORE, lake_results, cache, clock, calls,
                   ticks, served>>

\* time passes between two steps of the API service
Tick ==
    /\ ticks < MaxTicks
    /\ ticks' = ticks + 1
    /\ \E d \in {RETRY_DELAY, CACHE_TTL - RETRY_DELAY} : clock' = clock + d
    /\ UNCHANGED <<pipeline_and_store, USE_LOCAL_STORE, lake_results, cache, call, calls,
                   served>>

\* the sink writes a row to the table "results" of the data lake
LakeWrite(row) ==
    /\ row \notin lake_results
    /\ lake_results' = lake_results \cup {row}
    /\ UNCHANGED <<pipeline_and_store, USE_LOCAL_STORE, cache, clock, call, calls, ticks,
                   served>>

\* the sink's results branch for one message of its input topics: filter, flatten, write
\* (flatten_for_results raises on a validation that is not a mapping: nothing is written)
SinkResult ==
    \E row \in validation_success \cup validation_failure :
        /\ has_validation_result(row)
        /\ ~IsList(row["validation"])
        /\ LakeWrite(flatten_for_results(row, clock))

\* what the rest of the service keeps while request handlers run get_related_runs
\* side by side (the worker threads of waitress)
beside_handlers ==
    <<topics, runnerDone, validatorDone, generatorDone, generator, NUM_TESTS, submits,
      redeliveries, results, timeseries, family_result, consumer, USE_LOCAL_STORE,
      lake_results, call, calls, ticks, served>>

IdleHandler ==
    [pc |-> "idle", message_key |-> <<>>, base_key |-> <<>>, attempt |-> 0, rows |-> <<>>,
     hit |-> FALSE, result |-> PyNone, requests |-> 0]

\* handler h takes a request, enters DataLakeQuery.get_related_runs (data-lake mode) and
\* computes the base key and the cache key
HandlerEnter(h, message_key) ==
    /\ handlers[h].pc \in {"idle", "returned"}
    /\ handlers[h].requests < MaxCalls
    /\ ~USE_LOCAL_STORE
    /\ handlers' = [handlers EXCEPT ![h] = [IdleHandler EXCEPT
                                               !.pc = "test",
                                               !.message_key = message_key,
                                               !.base_key = base_key_of(message_key),
                                               !.requests = handlers[h].requests + 1]]
    /\ UNCHANGED <<beside_handlers, cache, clock>>

\* handler h: 'if cache_key in _cache'
HandlerTest(h) ==
    /\ handlers[h].pc = "test"
    /\ handlers' = [handlers EXCEPT ![h].pc =
                       IF cache_key_of(handlers[h].base_key) \in DOMAIN cache
                       THEN "read" ELSE "attempt"]
    /\ UNCHANGED <<beside_handlers, cache, clock>>

\* handler h: 'cached_time, cached_data = _cache[cache_key]' and the test of the TTL
HandlerRead(h) ==
    /\ handlers[h].pc = "read"
    /\ LET entry == cache[cache_key_of(handlers[h].base_key)]
       IN handlers' = [handlers EXCEPT ![h] =
                          IF is_fresh(entry.cached_time, clock)
                          THEN [@ EXCEPT !.pc = "returned", !.hit = TRUE,
                                         !.result = PyList(entry.cached_data)]
                          ELSE [@ EXCEPT !.pc = "attempt"]]
    /\ UNCHANGED <<beside_handlers, cache, clock>>

\* handler h: one query of the retry loop; it raises, or answers with the rows of now
HandlerAttempt(h) ==
    /\ handlers[h].pc = "attempt"
    /\ LET after == IF retries_left(handlers[h].attempt)
                    THEN [handlers[h] EXCEPT !.pc = "sleep"]
                    ELSE [handlers[h] EXCEPT !.pc = "returned", !.result = PyList(<<>>)]
           rows == related_query(lake_results, handlers[h].base_key)
       IN \/ handlers' = [handlers EXCEPT ![h] = after]
          \/ handlers' = [handlers EXCEPT ![h] =
                             IF caches_result(rows)
                             THEN [@ EXCEPT !.pc = "insert", !.rows = rows]
                             ELSE after]
    /\ UNCHANGED <<beside_handlers, cache, clock>>

\* handler h: time.sleep(RETRY_DELAY)
HandlerSleep(h) ==
    /\ handlers[h].pc = "sleep"
    /\ clock' = clock + RETRY_DELAY
    /\ handlers' = [handlers EXCEPT ![h] = [@ EXCEPT !.pc = "attempt", !.attempt = @ + 1]]
    /\ UNCHANGED <<beside_handlers, cache>>

\* handler h: '_cache[cache_key] = (time.time(), result)' and 'return result'
HandlerInsert(h) ==
    /\ handlers[h].pc = "insert"
    /\ cache' = cache_insert(cache, cache_key_of(handlers[h].base_key), clock,
                             handlers[h].rows)
    /\ handlers' = [handlers EXCEPT ![h] = [@ EXCEPT !.pc = "returned",
                                                     !.result = PyList(handlers[h].rows)]]
    /\ UNCHANGED <<beside_handlers, clock>>

\* the consumer thread, one pass of 'while True' that polled a message: the message is
\* decoded, parsed, stored and committed, or dropped with a logged diagnostic; a failure
\* that no handler inside the loop catches ends the thread
ConsumerPoll ==
    /\ consumer.running
    /\ consumer.offset <= Len(consumer.polled)
    /\ LET msg == consumer.polled[consumer.offset]
           failure == consume_failure(msg)
           message_key == Get(msg.value.dict, "message_key", UnknownKey)
           input_data == Get(msg.value.dict, "input_data", <<>>)
       IN /\ IF reaches_store(msg)
             THEN /\ results' = add_result(results, message_key, msg.value.dict)
                  /\ timeseries' = add_timeseries(timeseries, message_key,
                                                  appended_points(input_data))
             ELSE UNCHANGED <<results, timeseries>>
          /\ consumer' = [consumer EXCEPT
                             !.offset = @ + 1,
                             !.errors = IF failure = "none" THEN @ ELSE @ + 1,
                             !.committed = IF failure = "none" THEN consumer.offset ELSE @,
                             !.running = failure = "none" \/ caught_in_loop(failure)]
    /\ UNCHANGED <<topics, runnerDone, validatorDone, generatorDone, generator, NUM_TESTS,
                   submits, redeliveries, family_result, datalake, handlers>>

\* LocalStore._lock is held by the consumer thread from the entry of add_result to its
\* return or its exception ('with self._lock')
lock_free == consumer.pc = "poll"

\* the message the consumer thread is handling, its run key and its points
polled_now == consumer.polled[consumer.offset]
polled_key == Get(polled_now.value.dict, "message_key", UnknownKey)
polled_points == Get(polled_now.value.dict, "input_data", <<>>)

\* the consumer thread polls a message that does not get as far as store.add_result
StoreDrop ==
    /\ consumer.running
    /\ consumer.pc = "poll"
    /\ consumer.offset <= Len(consumer.polled)
    /\ ~reaches_store(polled_now)
    /\ consumer' = [consumer EXCEPT !.offset = @ + 1, !.errors = @ + 1,
                                    !.running = caught_in_loop(consume_failure(polled_now))]
    /\ UNCHANGED <<topics, runnerDone, validatorDone, generatorDone, generator, NUM_TESTS,
                   submits, redeliveries, results, timeseries, family_result, datalake,
                   handlers>>

\* add_result, first statements: the lock is taken and self._results[message_key] is set
StoreResult ==
    /\ consumer.running
    /\ consumer.pc = "poll"
    /\ consumer.offset <= Len(consumer.polled)
    /\ reaches_store(polled_now)
    /\ results' = add_result(results, polled_key, polled_now.value.dict)
    /\ consumer' = [consumer EXCEPT !.pc = "clear"]
    /\ UNCHANGED <<topics, runnerDone, validatorDone, generatorDone, generator, NUM_TESTS,
                   submits, redeliveries, timeseries, family_result, datalake, handlers>>

\* add_result: self._timeseries[message_key] = []
StoreClear ==
    /\ consumer.pc = "clear"
    /\ timeseries' = add_timeseries(timeseries, polled_key, <<>>)
    /\ consumer' = [consumer EXCEPT !.pc = "append", !.next = 1]
    /\ UNCHANGED <<topics, runnerDone, validatorDone, generatorDone, generator, NUM_TESTS,
                   submits, redeliveries, results, family_result, datalake, handlers>>

\* add_result, one pass of 'for point in ...': the point is appended, or '**point' raises,
\* the lock is released and the loop of the consumer logs the exception
StoreAppend ==
    /\ consumer.pc = "append"
    /\ consumer.next <= Len(polled_points)
    /\ IF is_mapping(polled_points[consumer.next])
       THEN /\ timeseries' = [timeseries EXCEPT ![polled_key] =
                                 Append(@, timeseries_point(polled_key,
                                                            polled_points[consumer.next]))]
            /\ consumer' = [consumer EXCEPT !.next = @ + 1]
       ELSE /\ UNCHANGED timeseries
            /\ consumer' = [consumer EXCEPT !.pc = "poll", !.next = 1, !.offset = @ + 1,
                                            !.errors = @ + 1,
                                            !.running = caught_in_loop("TypeError")]
    /\ UNCHANGED <<topics, runnerDone, validatorDone, generatorDone, generator, NUM_TESTS,
                   submits, redeliveries, results, family_result, datalake, handlers>>

\* add_result returns, the lock is released, and consumer.commit(msg) follows
StoreReturn ==
    /\ consumer.pc = "append"
    /\ consumer.next > Len(polled_points)
    /\ consumer' = [consumer EXCEPT !.pc = "poll", !.next = 1, !.offset = @ + 1,
                                    !.committed = consumer.offset]
    /\ UNCHANGED <<topics, runnerDone, validatorDone, generatorDone, generator, NUM_TESTS,
                   submits, redeliveries, results, timeseries, family_result, datalake,
                   handlers>>

\* a request handler calls one get_* method of LocalStore, which takes the lock for its
\* whole body: get_result_by_message_key, get_timeseries_by_message_key, get_related_runs
StoreRead(h, op, message_key) ==
    /\ lock_free
    /\ handlers' = [handlers EXCEPT ![h] =
          [op |-> op, message_key |-> message_key,
           result |-> IF op = "get_result_by_message_key"
                      THEN (IF message_key \in DOMAIN results
                            THEN PyDict(results[message_key]) ELSE PyNone)
                      ELSE IF op = "get_timeseries_by_message_key"
                      THEN PyList(local_timeseries(timeseries, message_key))
                      ELSE PyList(get_related_runs(results, message_key))]]
    /\ handlers'[h] # handlers[h]
    /\ UNCHANGED <<topics, runnerDone, validatorDone, generatorDone, generator, NUM_TESTS,
                   submits, redeliveries, results, timeseries, family_result, datalake,
                   consumer>>

\* the API service dies and is started again: the new process has an empty LocalStore,
\* and its consumer, of the same consumer group, resumes after the committed offset
ServiceRestart ==
    /\ redeliveries < MaxRedeliver
    /\ redeliveries' = redeliveries + 1
    /\ results' = EmptyDict
    /\ timeseries' = EmptyDict
    /\ consumer' = [consumer EXCEPT !.pc = "poll", !.next = 1, !.running = TRUE,
                                    !.errors = 0, !.offset = consumer.committed + 1]
    /\ UNCHANGED <<topics, runnerDone, validatorDone, generatorDone, generator, NUM_TESTS,
                   submits, family_result, datalake, handlers>>

Next ==
    \/ Submit
    \/ RunnerSkip
    \/ RunnerProcess
    \/ Validate
    \/ GeneratorReceive
    \/ GeneratorIterate
    \/ GeneratorPublish
    \/ GeneratorCrash

Spec == Init /\ [][Next]_vars

\* ------------------------------------------------------------------------
\* The closed loop with submissions in two clock seconds and with two configs
\* ------------------------------------------------------------------------
KeyTimestamps == {"T1", "T2"}

KeyConfigs ==
    UserConfigs \cup
    {[success_criteria |-> Criteria(PyInt(3)), start_time |-> PyInt(0), stop_time |-> PyInt(1)]}

NextKeys ==
    \/ \E ts \in KeyTimestamps, data \in UserInputs, config \in KeyConfigs :
          post_simulation(ts, <<"m", FMU>>, data, config)
    \/ RunnerProcess
    \/ Validate
    \/ GeneratorReceive
    \/ GeneratorIterate
    \/ GeneratorPublish

SpecKeys == Init /\ [][NextKeys]_vars

\* ------------------------------------------------------------------------
\* The Validator alone, on every simulation result of a bounded family
\* ------------------------------------------------------------------------
RootKey == generate_message_key("T1", <<"m", FMU>>)

ValidatorPoints ==
    {[h |-> PyInt(0)], [h |-> PyInt(1)], [h |-> PyInt(2)], [h |-> PyInt(-1)],
     [h |-> PyFloat(150)], [h |-> PyStr("2")], [h |-> PyStr("abc")], [h |-> PyNone],
     [h |-> PyBool(TRUE)], [position |-> PyInt(0)], [time |-> PyFloat(0)]}

ValidatorConfigs ==
    {[success_criteria |-> Criteria(PyInt(1))],
     [success_criteria |-> Criteria(PyFloat(150))],
     [success_criteria |-> Criteria(PyStr("1"))],
     [success_criteria |-> Criteria(PyStr("abc"))],
     [success_criteria |-> Criteria(PyNone)],
     [success_criteria |-> PyDict([field_name |-> PyStr("h")])],
     [stop_time |-> PyInt(1)]}

RowLists == UNION {[1..n -> ValidatorPoints] : n \in 0..MaxRows}

ResultRows ==
    {[message_key |-> RootKey, model_filename |-> <<"m", FMU>>, source |-> "user",
      config |-> c, status |-> "ok", error_message |-> PyNone, input_data |-> rows] :
        c \in ValidatorConfigs, rows \in RowLists}

InitValidate ==
    /\ simulation = {}
    /\ simulation_results \in {{r} : r \in ResultRows}
    /\ validation_success = {}
    /\ validation_failure = {}
    /\ runnerDone = {}
    /\ validatorDone = {}
    /\ generatorDone = {}
    /\ generator = GeneratorIdle
    /\ NUM_TESTS = 0
    /\ submits = 0
    /\ redeliveries = 0
    /\ results = EmptyDict
    /\ family_result = NoRequest
    /\ BackgroundIdle
    /\ DatalakeUnused

NextValidate == Validate

SpecValidate == InitValidate /\ [][NextValidate]_vars

\* ------------------------------------------------------------------------
\* The Test Generator alone, on every failed verdict of a bounded family
\* ------------------------------------------------------------------------
GeneratorConfigs ==
    {[success_criteria |-> Criteria(PyInt(1)),
      parameters |-> PyDict([mass |-> PyInt(2), flag |-> PyBool(TRUE), name |-> PyStr("ball")]),
      label |-> PyStr("x")],
     [success_criteria |-> Criteria(PyFloat(150)), stop_time |-> PyFloat(FScale)],
     [success_criteria |-> PyInt(5), speed |-> PyInt(1)],
     [success_criteria |-> Criteria(PyInt(1)), parameters |-> PyDict([success_criteria |-> PyInt(2)])],
     [label |-> PyStr("x")]}

Sources == {"user", "system", "other"}

Without(row, keys) == [k \in DOMAIN row \ keys |-> row[k]]

FailedRow(source, config) ==
    [message_key |-> RootKey, model_filename |-> <<"m", FMU>>, source |-> source,
     config |-> config, status |-> "ok", error_message |-> PyNone,
     input_data |-> <<[time |-> PyFloat(0), h |-> PyFloat(FScale \div 2)]>>,
     validation |-> Verdict("h", PyFloat(FScale \div 2), PyInt(1), FALSE, "below")]

FailureRows ==
    LET full == {FailedRow(s, c) : s \in Sources, c \in GeneratorConfigs}
    IN full \cup {Without(r, {"source"}) : r \in full}
            \cup {Without(r, {"message_key", "model_filename"}) : r \in full}
            \cup {Without(r, {"config"}) : r \in full}

InitGenerator ==
    /\ simulation = {}
    /\ simulation_results = {}
    /\ validation_success = {}
    /\ validation_failure \in {{r} : r \in FailureRows}
    /\ runnerDone = {}
    /\ validatorDone = {}
    /\ generatorDone = {}
    /\ generator = GeneratorIdle
    /\ NUM_TESTS \in 0..MaxNumTests
    /\ submits = 0
    /\ redeliveries = 0
    /\ results = EmptyDict
    /\ family_result = NoRequest
    /\ BackgroundIdle
    /\ DatalakeUnused

NextGenerator ==
    \/ GeneratorReceive
    \/ GeneratorIterate
    \/ GeneratorPublish
    \/ GeneratorCrash

SpecGenerator == InitGenerator /\ [][NextGenerator]_vars

\* ------------------------------------------------------------------------
\* The mutation engine in the Test Generator, on failed user verdicts whose configs hold
\* numbers, a boolean and text, each verdict delivered once
\* ------------------------------------------------------------------------
MutationConfigs ==
    {[success_criteria |-> Criteria(PyInt(1)),
      parameters |-> PyDict([mass |-> PyInt(100), flag |-> PyBool(TRUE)])],
     [success_criteria |-> Criteria(PyInt(1)), gain |-> PyInt(100), label |-> PyStr("x")]}

InitMutation ==
    /\ simulation = {}
    /\ simulation_results = {}
    /\ validation_success = {}
    /\ validation_failure \in {{FailedRow("user", c)} : c \in MutationConfigs}
    /\ runnerDone = {}
    /\ validatorDone = {}
    /\ generatorDone = {}
    /\ generator = GeneratorIdle
    /\ NUM_TESTS \in 1..MaxNumTests
    /\ submits = 0
    /\ redeliveries = MaxRedeliver
    /\ results = EmptyDict
    /\ family_result = NoRequest
    /\ BackgroundIdle
    /\ DatalakeUnused

NextMutation ==
    \/ GeneratorReceive
    \/ GeneratorIterate
    \/ GeneratorPublish

SpecMutation == InitMutation /\ [][NextMutation]_vars

\* ------------------------------------------------------------------------
\* The closed loop with the API service: the background consumer stores the verdicts
\* of the two validation topics, in any order, and the family query reads the store
\* ------------------------------------------------------------------------
ShapeKeys == {RootKey} \cup {child_key(RootKey, i) : i \in 1..MaxLoopTests}

\* one submission is still to come, and every message is delivered once
InitShape ==
    /\ simulation = {}
    /\ simulation_results = {}
    /\ validation_success = {}
    /\ validation_failure = {}
    /\ runnerDone = {}
    /\ validatorDone = {}
    /\ generatorDone = {}
    /\ generator = GeneratorIdle
    /\ NUM_TESTS \in 0..MaxLoopTests
    /\ submits = MaxSubmits - 1
    /\ redeliveries = MaxRedeliver
    /\ results = EmptyDict
    /\ family_result = NoRequest
    /\ BackgroundIdle
    /\ DatalakeUnused

NextShape ==
    \/ Submit
    \/ RunnerSkip
    \/ RunnerProcess
    \/ Validate
    \/ GeneratorReceive
    \/ GeneratorIterate
    \/ GeneratorPublish
    \/ ConsumeResult
    \/ \E message_key \in ShapeKeys : RelatedRunsCall(message_key)

SpecShape == InitShape /\ [][NextShape]_vars

\* ------------------------------------------------------------------------
\* The background consumer alone, on every bounded sequence of polled messages
\* ------------------------------------------------------------------------
\* the points of two rows of output
Point0 == [time |-> PyFloat(0), h |-> PyFloat(0)]
Point1 == [time |-> PyFloat(FScale), h |-> PyFloat(FScale)]

\* a verdict-tagged result as the Validator publishes it
PolledRow(message_key, input_data) ==
    validate_simulation(
        [message_key |-> message_key, model_filename |-> <<"m", FMU>>,
         source |-> IF contains_gen(message_key) THEN "system" ELSE "user",
         config |-> [success_criteria |-> Criteria(PyInt(1))],
         status |-> "ok", error_message |-> PyNone, input_data |-> input_data])

PolledMessages ==
    {KafkaError, NotUtf8, NotJson, JsonOf(PyList(<<>>)),
     JsonOf(PyDict([message_key |-> RootKey, input_data |-> <<Point0, PyInt(5), Point1>>]))}
    \cup {JsonOf(PyDict(PolledRow(RootKey, rows))) :
             rows \in {<<>>, <<Point0>>, <<Point0, Point1>>}}
    \cup {JsonOf(PyDict(PolledRow(child_key(RootKey, 1), <<Point1>>)))}

InitConsumer ==
    /\ simulation = {}
    /\ simulation_results = {}
    /\ validation_success = {}
    /\ validation_failure = {}
    /\ runnerDone = {}
    /\ validatorDone = {}
    /\ generatorDone = {}
    /\ generator = GeneratorIdle
    /\ NUM_TESTS = 0
    /\ submits = 0
    /\ redeliveries = 0
    /\ results = EmptyDict
    /\ timeseries = EmptyDict
    /\ family_result = NoRequest
    /\ DatalakeUnused
    /\ handlers = NoHandlers
    /\ consumer \in {[NoConsumer EXCEPT !.polled = q] :
                        q \in UNION {[1..n -> PolledMessages] : n \in 0..MaxPolled}}

NextConsumer == ConsumerPoll

SpecConsumer == InitConsumer /\ [][NextConsumer]_vars

\* ------------------------------------------------------------------------
\* The local store between the consumer thread and the request handlers: add_result
\* statement by statement, the get_* methods of the handlers in between
\* ------------------------------------------------------------------------
StoreMessages ==
    {NotJson,
     JsonOf(PyDict([message_key |-> RootKey, input_data |-> <<Point0, PyInt(5), Point1>>]))}
    \cup {JsonOf(PyDict(PolledRow(RootKey, rows))) : rows \in {<<Point0>>, <<Point1, Point0>>}}

StoreOps == {"get_result_by_message_key", "get_timeseries_by_message_key", "get_related_runs"}

NoRead == [op |-> "", message_key |-> <<>>, result |-> PyNone]

InitStore ==
    /\ simulation = {}
    /\ simulation_results = {}
    /\ validation_success = {}
    /\ validation_failure = {}
    /\ runnerDone = {}
    /\ validatorDone = {}
    /\ generatorDone = {}
    /\ generator = GeneratorIdle
    /\ NUM_TESTS = 0
    /\ submits = 0
    /\ redeliveries = 0
    /\ results = EmptyDict
    /\ timeseries = EmptyDict
    /\ family_result = NoRequest
    /\ DatalakeUnused
    /\ handlers = [h \in 1..MaxHandlers |-> NoRead]
    /\ consumer \in {[NoConsumer EXCEPT !.polled = q] :
                        q \in UNION {[1..n -> StoreMessages] : n \in 0..MaxPolled}}

NextStore ==
    \/ StoreDrop
    \/ StoreResult
    \/ StoreClear
    \/ StoreAppend
    \/ StoreReturn
    \/ \E h \in 1..MaxHandlers, op \in StoreOps : StoreRead(h, op, RootKey)

SpecStore == InitStore /\ [][NextStore]_vars

\* ------------------------------------------------------------------------
\* The consumer thread across restarts of the service: store, then commit
\* ------------------------------------------------------------------------
NextCommit ==
    \/ StoreDrop
    \/ StoreResult
    \/ StoreClear
    \/ StoreAppend
    \/ StoreReturn
    \/ ServiceRestart

SpecCommit == InitStore /\ [][NextCommit]_vars

\* ------------------------------------------------------------------------
\* The API service alone, on the verdicts of a bounded family and of another root
\* ------------------------------------------------------------------------
OtherKey == generate_message_key("T2", <<"m", FMU>>)

FamilyKeys == {RootKey, OtherKey} \cup {child_key(RootKey, i) : i \in 1..MaxVariants}

\* what the FMU runner emitted for a run: no rows, or one row with this height
FamilyOutputs ==
    {<<>>} \cup {<<[time |-> PyFloat(0), h |-> PyFloat(h)]>> : h \in {0, FScale, 2 * FScale}}

FamilyRows ==
    {validate_simulation(
        [message_key |-> key, model_filename |-> <<"m", FMU>>,
         source |-> IF contains_gen(key) THEN "system" ELSE "user",
         config |-> [success_criteria |-> Criteria(PyInt(1))],
         status |-> IF rows = <<>> THEN "error" ELSE "ok",
         error_message |-> PyNone, input_data |-> rows]) :
        key \in FamilyKeys, rows \in FamilyOutputs}

InitFamily ==
    /\ simulation = {}
    /\ simulation_results = {}
    /\ validation_success = {row \in FamilyRows : success_filter(row)}
    /\ validation_failure = {row \in FamilyRows : failure_filter(row)}
    /\ runnerDone = {}
    /\ validatorDone = {}
    /\ generatorDone = {}
    /\ generator = GeneratorIdle
    /\ NUM_TESTS = 0
    /\ submits = 0
    /\ redeliveries = 0
    /\ results = EmptyDict
    /\ family_result = NoRequest
    /\ BackgroundIdle
    /\ DatalakeUnused

NextFamily ==
    \/ ConsumeResult
    \/ \E message_key \in FamilyKeys : get_run_result(message_key)

SpecFamily == InitFamily /\ [][NextFamily]_vars

\* ------------------------------------------------------------------------
\* The two storage modes side by side: the background consumer of the API service and the
\* data-lake sink read the same validation topics, each message in any order and any
\* number of times
\* ------------------------------------------------------------------------
ModeKeys == {RootKey, child_key(RootKey, 1), child_key(RootKey, 2)}

ModeOutputs ==
    {<<>>} \cup {<<[time |-> PyFloat(0), h |-> PyFloat(h)]>> : h \in {FScale, 2 * FScale}}

\* verdict-tagged results of a family; a key may have more than one
ModeRows ==
    {validate_simulation(
        [message_key |-> key, model_filename |-> <<"m", FMU>>,
         source |-> IF contains_gen(key) THEN "system" ELSE "user",
         config |-> [success_criteria |-> Criteria(PyInt(1)),
                     parameters |-> PyDict([mass |-> PyInt(2)])],
         status |-> IF rows = <<>> THEN "error" ELSE "ok",
         error_message |-> PyNone, input_data |-> rows]) :
        key \in ModeKeys, rows \in ModeOutputs}

InitModes ==
    /\ simulation = {}
    /\ simulation_results = {}
    /\ validation_success = {row \in ModeRows : success_filter(row)}
    /\ validation_failure = {row \in ModeRows : failure_filter(row)}
    /\ runnerDone = {}
    /\ validatorDone = {}
    /\ generatorDone = {}
    /\ generator = GeneratorIdle
    /\ NUM_TESTS = 0
    /\ submits = 0
    /\ redeliveries = 0
    /\ results = EmptyDict
    /\ family_result = NoRequest
    /\ BackgroundIdle
    /\ DatalakeUnused

NextModes ==
    \/ ConsumeResult
    \/ SinkResult

SpecModes == InitModes /\ [][NextModes]_vars

\* ------------------------------------------------------------------------
\* The data-lake sink alone, on messages with and without a verdict
\* ------------------------------------------------------------------------
\* what a message may carry under `validation`: a verdict that passed or failed, a verdict
\* whose `passed` is null, a mapping without `passed`, an empty mapping, null, lists
SinkValidations ==
    {Verdict("h", PyFloat(FScale), PyInt(1), TRUE, "meets"),
     Verdict("h", PyNone, PyInt(1), FALSE, "no_data"),
     [passed |-> PyNone],
     [metric |-> <<"max_", "h">>],
     EmptyDict,
     PyNone,
     PyList(<<>>),
     PyList(<<PyStr("passed")>>),
     PyList(<<PyStr("failed")>>)}

SinkRows ==
    LET plain == [message_key |-> RootKey, status |-> "ok"]
    IN {plain, [other |-> "data"]} \cup
       {("validation" :> validation) @@ plain : validation \in SinkValidations}

InitSink ==
    /\ simulation = {}
    /\ simulation_results = {}
    /\ validation_success \in SUBSET {row \in SinkRows : "message_key" \notin DOMAIN row}
    /\ validation_failure \in SUBSET {row \in SinkRows : "message_key" \in DOMAIN row}
    /\ runnerDone = {}
    /\ validatorDone = {}
    /\ generatorDone = {}
    /\ generator = GeneratorIdle
    /\ NUM_TESTS = 0
    /\ submits = 0
    /\ redeliveries = 0
    /\ results = EmptyDict
    /\ family_result = NoRequest
    /\ BackgroundIdle
    /\ DatalakeUnused

NextSink == SinkResult

SpecSink == InitSink /\ [][NextSink]_vars

\* ------------------------------------------------------------------------
\* DataLakeQuery on the data lake: one handler, calls one after the other
\* ------------------------------------------------------------------------
LakeKeys == {RootKey, child_key(RootKey, 1), OtherKey}

LakeRows == {LakeRow(k) : k \in {RootKey, child_key(RootKey, 1)}}

InitLake ==
    /\ simulation = {}
    /\ simulation_results = {}
    /\ validation_success = {}
    /\ validation_failure = {}
    /\ runnerDone = {}
    /\ validatorDone = {}
    /\ generatorDone = {}
    /\ generator = GeneratorIdle
    /\ NUM_TESTS = 0
    /\ submits = 0
    /\ redeliveries = 0
    /\ results = EmptyDict
    /\ family_result = NoRequest
    /\ BackgroundIdle
    /\ USE_LOCAL_STORE = FALSE
    /\ lake_results = {}
    /\ cache = EmptyDict
    /\ clock = 0
    /\ call = NoCall
    /\ calls = 0
    /\ ticks = 0
    /\ served = EmptyDict

NextLake ==
    \/ \E message_key \in LakeKeys : RelatedRunsCall(message_key)
    \/ RelatedRunsAttempt
    \/ \E message_key \in LakeKeys : ResultCall(message_key)
    \/ ResultAttempt
    \/ \E message_key \in LakeKeys : TimeseriesCall(message_key)
    \/ TimeseriesAttempt
    \/ RetrySleep
    \/ Tick
    \/ \E row \in LakeRows : LakeWrite(row)

SpecLake == InitLake /\ [][NextLake]_vars

\* ------------------------------------------------------------------------
\* DataLakeQuery on the data lake: request handlers side by side on the shared cache
\* ------------------------------------------------------------------------
HandlerKeys == {RootKey, child_key(RootKey, 1)}

InitHandlers ==
    /\ simulation = {}
    /\ simulation_results = {}
    /\ validation_success = {}
    /\ validation_failure = {}
    /\ runnerDone = {}
    /\ validatorDone = {}
    /\ generatorDone = {}
    /\ generator = GeneratorIdle
    /\ NUM_TESTS = 0
    /\ submits = 0
    /\ redeliveries = 0
    /\ results = EmptyDict
    /\ timeseries = EmptyDict
    /\ family_result = NoRequest
    /\ consumer = NoConsumer
    /\ handlers = [h \in 1..MaxHandlers |-> IdleHandler]
    /\ USE_LOCAL_STORE = FALSE
    /\ lake_results = {}
    /\ cache = EmptyDict
    /\ clock = 0
    /\ call = NoCall
    /\ calls = 0
    /\ ticks = 0
    /\ served = EmptyDict

NextHandlers ==
    \/ \E h \in 1..MaxHandlers, message_key \in HandlerKeys : HandlerEnter(h, message_key)
    \/ \E h \in 1..MaxHandlers : HandlerTest(h)
    \/ \E h \in 1..MaxHandlers : HandlerRead(h)
    \/ \E h \in 1..MaxHandlers : HandlerAttempt(h)
    \/ \E h \in 1..MaxHandlers : HandlerSleep(h)
    \/ \E h \in 1..MaxHandlers : HandlerInsert(h)
    \/ Tick
    \/ \E row \in LakeRows : LakeWrite(row)

SpecHandlers == InitHandlers /\ [][NextHandlers]_vars

\* ------------------------------------------------------------------------
\* The family query alone, of the local store or of the data lake, on a store that
\* holds a root, its variants 2 and 10, a variant of variant 2 and another root
\* ------------------------------------------------------------------------
QueryKeys ==
    {RootKey, child_key(RootKey, 2), child_key(RootKey, 10),
     child_key(child_key(RootKey, 2), 1), OtherKey}

\* the verdict-tagged results of these runs, as the validator publishes them
QueryRows ==
    {validate_simulation(
        [message_key |-> key, model_filename |-> <<"m", FMU>>,
         source |-> IF contains_gen(key) THEN "system" ELSE "user",
         config |-> [success_criteria |-> Criteria(PyInt(1))],
         status |-> "ok", error_message |-> PyNone,
         input_data |-> <<[time |-> PyFloat(0), h |-> PyFloat(0)]>>]) :
        key \in QueryKeys}

InitQuery ==
    /\ simulation = {}
    /\ simulation_results = {}
    /\ USE_LOCAL_STORE \in BOOLEAN
    /\ validation_success = {}
    /\ validation_failure = IF USE_LOCAL_STORE THEN QueryRows ELSE {}
    /\ lake_results \in IF USE_LOCAL_STORE THEN {{}}
                        ELSE SUBSET {LakeRow(key) : key \in QueryKeys}
    /\ runnerDone = {}
    /\ validatorDone = {}
    /\ generatorDone = {}
    /\ generator = GeneratorIdle
    /\ NUM_TESTS = 0
    /\ submits = 0
    /\ redeliveries = 0
    /\ results = EmptyDict
    /\ family_result = NoRequest
    /\ BackgroundIdle
    /\ cache = EmptyDict
    /\ clock = 0
    /\ call = NoCall
    /\ calls = 0
    /\ ticks = 0
    /\ served = EmptyDict

NextQuery ==
    \/ ConsumeResult
    \/ \E message_key \in QueryKeys : RelatedRunsCall(message_key)
    \/ RelatedRunsAttempt
    \/ RetrySleep

SpecQuery == InitQuery /\ [][NextQuery]_vars

\* the steps of the three consumers
Pipeline ==
    \/ RunnerSkip
    \/ RunnerProcess
    \/ Validate
    \/ GeneratorReceive
    \/ GeneratorIterate
    \/ GeneratorPublish

\* the closed loop under the scheduling of its consumers: a consumer with a message to
\* consume, or a handler with a step left, does not wait forever
FairSpec == Spec /\ WF_vars(Pipeline)

\* ------------------------------------------------------------------------
\* Vocabulary of the properties
\* ------------------------------------------------------------------------
Range(q) == {q[i] : i \in DOMAIN q}

\* source is anything other than "user": "system", another value, or missing
NotUserSourced(row) == "source" \notin DOMAIN row \/ row["source"] # "user"
UserSourced(row) == "source" \in DOMAIN row /\ row["source"] = "user"

\* the key R_gen_i
GenKey(R, i) == R \o <<"_gen_">> \o DecStr(i)

\* number of "_gen_" in a key
GenCount(key) == Cardinality({i \in DOMAIN key : key[i] = "_gen_"})

\* the verdict-tagged results the Validator has emitted
Verdicts == validation_success \cup validation_failure

\* the values of the criterion field that are present in the output rows
FieldValues(r) ==
    {pt[field_name_of(r)] : pt \in {q \in Range(Get(r, "input_data", <<>>)) :
                                       field_name_of(r) \in DOMAIN q}}

\* v is numeric: a number, or text that reads as a number
Coercible(v) == IsInt(v) \/ IsFloat(v) \/ IsBool(v) \/ (IsStr(v) /\ v.str \in DOMAIN NumericStrings)
NumericValues(r) == {FloatOf(v) : v \in {w \in FieldValues(r) : Coercible(w)}}
SetMax(S) == CHOOSE x \in S : \A y \in S : y <= x

\* success_criteria is the same in both configs (or absent from both)
SameCriteria(a, b) ==
    /\ ("success_criteria" \in DOMAIN a) = ("success_criteria" \in DOMAIN b)
    /\ "success_criteria" \in DOMAIN a => a["success_criteria"] = b["success_criteria"]

\* ------------------------------------------------------------------------
\* C1..C5: Test Generator
\* ------------------------------------------------------------------------
\* C1: a failed verdict whose source is not "user" ("system", another value, missing)
\* never starts a generation and never gets a run request published, whatever its
\* config and NUM_TESTS (SpecGenerator: one failed verdict, delivered and redelivered).
C1_LoopGuard ==
    \A m \in validation_failure :
        NotUserSourced(m) => simulation = {} /\ generator = GeneratorIdle

C1_Witness ==
    \E m \in generatorDone :
        /\ "source" \notin DOMAIN m
        /\ all_numeric_paths(Get(m, "config", EmptyDict)) # {}
        /\ NUM_TESTS = MaxNumTests
        /\ redeliveries > 0

\* C2: in the closed loop every system-generated run request on the simulation topic is
\* the child R_gen_i of a user-sourced request R, no key holds "_gen_" twice, and the
\* generator never expands the failure of a run that is not a user submission.
C2_DepthOne ==
    /\ \A m \in simulation :
          m["source"] = "system" =>
             \E u \in simulation :
                /\ u["source"] = "user"
                /\ m["parent_key"] = u["message_key"]
                /\ \E i \in 1..NUM_TESTS : m["message_key"] = GenKey(u["message_key"], i)
    /\ \A m \in simulation : GenCount(m["message_key"]) <= 1
    /\ generator.pc # "idle" =>
          \E u \in simulation :
             u["source"] = "user" /\ u["message_key"] = generator.row["message_key"]

C2_Witness ==
    /\ \E m \in generatorDone : m["source"] = "system"
    /\ \E m \in generatorDone : m["source"] = "user"
    /\ redeliveries = MaxRedeliver

\* C3: no consumer has anything left to consume and handle_failure is not running
Quiescent ==
    /\ simulation \subseteq runnerDone
    /\ simulation_results \subseteq validatorDone
    /\ validation_failure \subseteq generatorDone
    /\ generator.pc = "idle"

PublishedKeysBounded ==
    \A m \in simulation :
        \E u \in simulation :
            /\ u["source"] = "user"
            /\ m["message_key"] \in
                  {u["message_key"]} \cup {GenKey(u["message_key"], i) : i \in 1..NUM_TESTS}

\* C3: with finitely many submissions and every message delivered finitely often, the
\* pipeline comes to rest for good (from some point on every published message has been
\* consumed and no handler is running, so nothing more is published to the simulation
\* topic), and the keys published for a root R are among R, R_gen_1..R_gen_N.
C3_Termination ==
    /\ []PublishedKeysBounded
    /\ <>[]Quiescent

C3_Witness ==
    /\ Quiescent
    /\ redeliveries = MaxRedeliver
    /\ NUM_TESTS = MaxLoopTests
    /\ Cardinality({m["message_key"] : m \in simulation}) = NUM_TESTS + 1

\* C4: for a failed verdict with source "user" and key R, the generator builds exactly
\* NUM_TESTS payloads, the i-th with key R_gen_i, source "system", parent_key R, no input
\* rows and the model reference of the verdict; these are what it publishes.
C4_ChildOf(t, m, i) ==
    /\ t["message_key"] = GenKey(m["message_key"], i)
    /\ t["source"] = "system"
    /\ t["parent_key"] = m["message_key"]
    /\ t["input_data"] = <<>>
    /\ t["model_filename"] = m["model_filename"]

C4_Expand ==
    \A m \in validation_failure :
        (UserSourced(m) /\ "message_key" \in DOMAIN m) =>
            /\ generator.pc = "publish" =>
                  /\ Len(generator.tests) = NUM_TESTS
                  /\ \A i \in 1..NUM_TESTS : C4_ChildOf(generator.tests[i], m, i)
            /\ \A t \in simulation : \E i \in 1..NUM_TESTS : C4_ChildOf(t, m, i)
            /\ m \in generatorDone =>
                  {t["message_key"] : t \in simulation}
                     = {GenKey(m["message_key"], i) : i \in 1..NUM_TESTS}

C4_Witness ==
    \E m \in generatorDone :
        /\ UserSourced(m) /\ "message_key" \in DOMAIN m
        /\ NUM_TESTS = MaxNumTests
        /\ Cardinality({t["message_key"] : t \in simulation}) = MaxNumTests

\* C5: every generated child (built or published) carries the success_criteria of the
\* failed verdict it was generated from, unchanged.
C5_CriteriaPreserved ==
    \A m \in validation_failure :
        \A t \in simulation \cup Range(generator.tests) :
            SameCriteria(Get(m, "config", EmptyDict), t["config"])

C5_Witness ==
    \E m \in generatorDone, t \in simulation :
        /\ "success_criteria" \in DOMAIN t["config"]
        /\ IsDict(t["config"]["success_criteria"])
        /\ t["config"] # m["config"]

\* ------------------------------------------------------------------------
\* C6..C9: Validator
\* ------------------------------------------------------------------------
\* C6 as stated: whenever some present value of the criterion field is numeric and
\* >= target_value, the verdict passes with calculated_value the maximum numeric value,
\* entries that are not numeric being discarded.
C6_Original ==
    \A r \in Verdicts :
        LET target == target_value_of(r) IN
        (Coercible(target) /\ \E x \in NumericValues(r) : x >= FloatOf(target)) =>
            /\ r["validation"].passed
            /\ r["validation"].calculated_value = PyFloat(SetMax(NumericValues(r)))

\* C6 (amended): when every present value of the criterion field is null or numeric,
\* target_value is numeric, and some value is >= target_value, the verdict passes with
\* calculated_value the maximum of the numeric values (nulls discarded); a maximum
\* equal to target_value passes.
C6_PassAtOrAboveTarget ==
    \A r \in Verdicts :
        LET target == target_value_of(r) IN
        ( /\ Coercible(target)
          /\ \A v \in FieldValues(r) : IsNone(v) \/ Coercible(v)
          /\ \E x \in NumericValues(r) : x >= FloatOf(target) ) =>
            /\ r["validation"].passed
            /\ r["validation"].calculated_value = PyFloat(SetMax(NumericValues(r)))

C6_Witness ==
    \E r \in validation_success :
        /\ PyNone \in FieldValues(r)
        /\ SetMax(NumericValues(r)) = FloatOf(target_value_of(r))
        /\ r["validation"].calculated_value = PyFloat(FloatOf(target_value_of(r)))

\* C7: a result with no output rows, or with no numeric value of the criterion field in
\* any row, gets passed = false and calculated_value = null.
C7_NoNumericFails ==
    \A r \in Verdicts :
        (Get(r, "input_data", <<>>) = <<>> \/ NumericValues(r) = {}) =>
            /\ ~r["validation"].passed
            /\ r["validation"].calculated_value = PyNone

C7_Witness ==
    \E r \in validation_failure :
        /\ Len(r["input_data"]) = MaxRows
        /\ FieldValues(r) = {PyNone}
        /\ r["validation"].calculated_value = PyNone
        /\ FloatOf(target_value_of(r)) = 0

\* C8: in every verdict emitted, passed = true implies that calculated_value is not
\* null and is >= target_value.
C8_VerdictInvariant ==
    \A r \in Verdicts :
        r["validation"].passed =>
            /\ IsFloat(r["validation"].calculated_value)
            /\ Coercible(r["validation"].target_value)
            /\ r["validation"].calculated_value.flt >= FloatOf(r["validation"].target_value)

C8_Witness ==
    \E r \in validation_success :
        /\ IsStr(r["validation"].target_value)
        /\ r["validation"].calculated_value.flt > FloatOf(r["validation"].target_value)

\* C9: every result the Validator has processed is on exactly one of the two outcome
\* topics: on validation-success when its verdict passed, on validation-failure when it
\* did not, never on both and never on neither.
C9_Routing ==
    /\ \A r \in validation_success : r["validation"].passed
    /\ \A r \in validation_failure : ~r["validation"].passed
    /\ validation_success \cap validation_failure = {}
    /\ \A m \in validatorDone : \E r \in Verdicts : Without(r, {"validation"}) = m

C9_Witness ==
    /\ validation_success # {}
    /\ validation_failure = {}
    /\ validatorDone # {}
    /\ redeliveries > 0

\* the key of a stored result
KeyOf(m) == Get(m, "message_key", <<>>)

\* the part of a key before its first "_gen_" (the key itself if there is none)
RootOf(key) ==
    IF \E i \in DOMAIN key : key[i] = "_gen_"
    THEN SubSeq(key, 1, (CHOOSE i \in DOMAIN key :
                            key[i] = "_gen_" /\ \A j \in 1..(i - 1) : key[j] # "_gen_") - 1)
    ELSE key

\* the stored results of the family of key: the root's and those of its variants
FamilyOf(key) ==
    {results[k] : k \in {k \in DOMAIN results :
                            \/ k = RootOf(key)
                            \/ /\ Len(k) > Len(RootOf(key))
                               /\ SubSeq(k, 1, Len(RootOf(key)) + 1) = RootOf(key) \o <<"_gen_">>}}

PassingOf(key) == {m \in FamilyOf(key) : m["validation_passed"]}

\* the calculated value of a passing member, in 1/FScale units
CalcOf(m) == FloatOf(m["validation_calculated_value"])

\* the answer is the stored result m with annotations added
AnswerIs(answer, m) ==
    /\ IsDict(answer)
    /\ DOMAIN m \subseteq DOMAIN answer.dict
    /\ \A k \in DOMAIN m : answer.dict[k] = m[k]

\* C10: whenever a member of the family asked for has passed, get_family_result returns a
\* passing member whose calculated value is the largest among the passing members, and
\* of the passing members with that value the one whose key is lexically first.
C10_BestPassing ==
    family_result # NoRequest /\ PassingOf(family_result.message_key) # {} =>
        \E w \in PassingOf(family_result.message_key) :
            /\ AnswerIs(family_result.result, w)
            /\ \A m \in PassingOf(family_result.message_key) :
                  /\ CalcOf(m) <= CalcOf(w)
                  /\ CalcOf(m) = CalcOf(w) /\ m # w => SeqLess(Text(KeyOf(w)), Text(KeyOf(m)))

C10_Witness ==
    /\ family_result # NoRequest
    /\ OtherKey \in DOMAIN results
    /\ \E a, b, c \in PassingOf(family_result.message_key) :
          /\ a # b
          /\ CalcOf(a) = CalcOf(b)
          /\ CalcOf(c) < CalcOf(a)
          /\ SeqLess(Text(KeyOf(c)), Text(KeyOf(a)))
          /\ AnswerIs(family_result.result, a)

\* the annotations of an answer
Annotation(answer, name) == answer.dict[name]

\* C11: whenever the family asked for is not empty and none of its members has passed,
\* get_family_result returns the member whose key holds no "_gen_" if there is one and
\* otherwise the lexically first member, annotated family_passed = false,
\* family_passed_count = 0 and is_variant = false.
C11_NoPassing ==
    /\ family_result # NoRequest
    /\ FamilyOf(family_result.message_key) # {}
    /\ PassingOf(family_result.message_key) = {}
    => \E w \in FamilyOf(family_result.message_key) :
          /\ AnswerIs(family_result.result, w)
          /\ IF \E m \in FamilyOf(family_result.message_key) : GenCount(KeyOf(m)) = 0
             THEN GenCount(KeyOf(w)) = 0
             ELSE \A m \in FamilyOf(family_result.message_key) \ {w} :
                     SeqLess(Text(KeyOf(w)), Text(KeyOf(m)))
          /\ Annotation(family_result.result, "_family_passed") = FALSE
          /\ Annotation(family_result.result, "_family_passed_count") = 0
          /\ Annotation(family_result.result, "_is_variant") = FALSE

C11_Witness ==
    /\ family_result # NoRequest
    /\ Cardinality(FamilyOf(family_result.message_key)) > 1
    /\ PassingOf(family_result.message_key) = {}
    /\ \A m \in FamilyOf(family_result.message_key) : GenCount(KeyOf(m)) = 1
    /\ GenCount(family_result.message_key) = 0
    /\ IsDict(family_result.result)

\* C12: for every family that is not empty the answer carries family_total_runs = the
\* number of members, family_passed_count = the number of members that passed,
\* family_passed = (family_passed_count > 0) and, when a member passed, is_variant =
\* (the key of the member returned holds "_gen_").
C12_Annotations ==
    family_result # NoRequest /\ FamilyOf(family_result.message_key) # {} =>
        /\ IsDict(family_result.result)
        /\ Annotation(family_result.result, "_family_total_runs") =
              Cardinality(FamilyOf(family_result.message_key))
        /\ Annotation(family_result.result, "_family_passed_count") =
              Cardinality(PassingOf(family_result.message_key))
        /\ Annotation(family_result.result, "_family_passed") =
              (Annotation(family_result.result, "_family_passed_count") > 0)
        /\ PassingOf(family_result.message_key) # {} =>
              Annotation(family_result.result, "_is_variant") =
                 (GenCount(family_result.result.dict["message_key"]) > 0)

C12_Witness ==
    /\ family_result # NoRequest
    /\ IsDict(family_result.result)
    /\ Annotation(family_result.result, "_family_total_runs") = MaxVariants + 1
    /\ Annotation(family_result.result, "_family_passed_count") = 1
    /\ Annotation(family_result.result, "_is_variant") = TRUE
    /\ OtherKey \in DOMAIN results

\* C14: whenever the store holds no member of the family asked for, get_family_result
\* returns no result and the request is answered 404, never with a result.
C14_NotFound ==
    family_result # NoRequest /\ FamilyOf(family_result.message_key) = {} =>
        /\ family_result.result = PyNone
        /\ family_result.status = "404"

C14_Witness ==
    /\ family_result # NoRequest
    /\ FamilyOf(family_result.message_key) = {}
    /\ GenCount(family_result.message_key) = 1
    /\ OtherKey \in DOMAIN results
    /\ \A m \in FamilyOf(OtherKey) : ~m["validation_passed"]

\* a get_related_runs call on the data lake has returned
RelatedReturned ==
    call.pc = "returned" /\ call.op = "get_related_runs" /\ ~USE_LOCAL_STORE

\* this step enters get_related_runs on the data lake
RelatedEntered ==
    calls' = calls + 1 /\ call'.op = "get_related_runs" /\ ~USE_LOCAL_STORE

\* the age of the cache entry of a base key, where there is one
HasEntry(base_key) == <<"related:">> \o base_key \in DOMAIN cache
EntryOf(base_key) == cache[<<"related:">> \o base_key]
AgeOf(base_key) == clock - EntryOf(base_key).cached_time

\* the rows of the family of a base key in the table, as a set
LakeFamily(base_key) ==
    {r \in lake_results :
        \/ r.message_key = base_key
        \/ /\ Len(r.message_key) > Len(base_key)
           /\ SubSeq(r.message_key, 1, Len(base_key) + 1) = base_key \o <<"_gen_">>}

\* C13: a get_related_runs call all of whose attempts failed with an I/O error returns
\* something else than the empty family it returns when the store holds no member.
C13_FailureDistinct ==
    RelatedReturned /\ call.raised = MAX_RETRIES + 1 => call.result # PyList(<<>>)

\* C15: an empty query result is never cached: the cache holds no empty family, it
\* changes only in a step that returns a family that is not empty, after a call that
\* ended with the empty family the cache has no entry of the base key young enough to
\* be served, and the next call for that base key goes to the store.
C15_EmptyNotCached ==
    /\ [](\A k \in DOMAIN cache : cache[k].cached_data # <<>>)
    /\ [](RelatedReturned /\ call.result = PyList(<<>>) =>
             ~(HasEntry(call.base_key) /\ AgeOf(call.base_key) < CACHE_TTL))
    /\ [][/\ cache' # cache =>
                call'.pc = "returned" /\ call'.result # PyList(<<>>)
          /\ RelatedReturned /\ call.result = PyList(<<>>) /\ RelatedEntered
                /\ call'.base_key = call.base_key =>
                call'.pc = "attempt"]_vars

C15_Witness ==
    /\ RelatedReturned
    /\ call.result = PyList(<<>>)
    /\ call.raised \in 1..MAX_RETRIES
    /\ call.queries = MAX_RETRIES + 1
    /\ calls = MaxCalls
    /\ ~HasEntry(call.base_key)
    /\ LakeFamily(call.base_key) = {}

\* C16: a family that a query read from the store at time t and that is not empty is
\* cached in that step, and every get_related_runs call for its base key that starts
\* before t + CACHE_TTL returns that same family without a query to the store.
C16_CacheServes ==
    [][/\ (call.pc = "attempt" /\ RelatedReturned' /\ call'.result # PyList(<<>>)) =>
            /\ HasEntry(call.base_key)'
            /\ EntryOf(call.base_key)' =
                   [cached_time |-> clock, cached_data |-> call'.result.list]
            /\ served'[call.base_key] =
                   [time |-> clock, family |-> call'.result.list]
       /\ (RelatedEntered /\ call'.base_key \in DOMAIN served
              /\ clock < served[call'.base_key].time + CACHE_TTL) =>
            /\ call'.pc = "returned"
            /\ call'.result = PyList(served[call'.base_key].family)
            /\ call'.queries = 0
            /\ lake_results' = lake_results /\ cache' = cache]_vars

C16_Witness ==
    /\ RelatedReturned
    /\ call.hit
    /\ call.queries = 0
    /\ AgeOf(call.base_key) = CACHE_TTL - RETRY_DELAY
    /\ Len(call.result.list) < Cardinality(LakeFamily(call.base_key))

C18_BoundedRetry ==
    /\ call.queries <= MAX_RETRIES + 1
    /\ call.waits <= MAX_RETRIES
    /\ call.pc = "attempt" => call.queries = call.attempt /\ call.waits = call.attempt
    /\ call.pc = "sleep" =>
          /\ call.queries = call.attempt + 1
          /\ call.waits = call.attempt
          /\ call.attempt < MAX_RETRIES
    /\ call.pc = "returned" =>
          \/ call.queries = 0 /\ call.waits = 0
          \/ call.waits = call.queries - 1

C18_Witness ==
    /\ call.pc = "returned"
    /\ call.op = "get_result_by_message_key"
    /\ call.queries = MAX_RETRIES + 1
    /\ call.waits = MAX_RETRIES
    /\ call.result = PyNone

\* the part of a key before its last "_gen_" (the key itself if there is none)
BeforeLastGen(key) ==
    IF \E i \in DOMAIN key : key[i] = "_gen_"
    THEN SubSeq(key, 1, (CHOOSE i \in DOMAIN key :
                            key[i] = "_gen_" /\ \A j \in (i + 1)..Len(key) : key[j] # "_gen_") - 1)
    ELSE key

\* the number of occurrences of "_gen_" in a key
GenCountOf(key) == Cardinality({i \in DOMAIN key : key[i] = "_gen_"})

\* C19 as stated: the base key of every family query is the part of the member key
\* before its first "_gen_", and the key itself when it has none.
C19_Original ==
    call.op = "get_related_runs" => call.base_key = RootOf(call.message_key)

\* C19, amended: the base key of every family query is the part of the member key
\* before its last "_gen_", and the key itself when it has none (with one "_gen_" in
\* the key that is the part before the first one).
C19_BaseKeyBeforeLastGen ==
    call.op = "get_related_runs" =>
        /\ call.base_key = BeforeLastGen(call.message_key)
        /\ GenCountOf(call.message_key) <= 1 => call.base_key = RootOf(call.message_key)
        /\ GenCountOf(call.message_key) = 0 => call.base_key = call.message_key

C19_Witness ==
    /\ call.pc = "returned"
    /\ call.op = "get_related_runs"
    /\ GenCountOf(call.message_key) = 2
    /\ GenCountOf(call.base_key) = 1
    /\ call.result.list # <<>>
    /\ \A n \in DOMAIN call.result.list : GenCountOf(KeyOf(call.result.list[n])) >= 1

\* a key is the base key or the base key followed by "_gen_" and anything, as text
InFamilyOf(key, base_key) ==
    \/ Text(key) = Text(base_key)
    \/ /\ Len(Text(key)) >= Len(Text(base_key)) + 5
       /\ SubSeq(Text(key), 1, Len(Text(base_key)) + 5) =
              Text(base_key) \o <<95, 103, 101, 110, 95>>

\* a list holds each member of a family once, in ascending order of the text of the keys
IsFamilyList(list, family) ==
    /\ {list[n] : n \in DOMAIN list} = family
    /\ Len(list) = Cardinality(family)
    /\ \A m, n \in DOMAIN list :
          m < n => SeqLess(Text(KeyOf(list[m])), Text(KeyOf(list[n])))

\* C20: what a family query returns, from the local store or from a query of the data
\* lake that did not fail, is each persisted result whose key is the base key or begins
\* with the base key and "_gen_", once, in ascending order of the key as text.
C20_FamilyQuery ==
    [][/\ (calls' = calls + 1 /\ call'.op = "get_related_runs" /\ USE_LOCAL_STORE) =>
            /\ call'.pc = "returned"
            /\ IsFamilyList(call'.result.list,
                            {results[k] : k \in {k \in DOMAIN results :
                                                    InFamilyOf(k, call'.base_key)}})
       /\ (call.pc = "attempt" /\ call.op = "get_related_runs"
              /\ call'.queries = call.queries + 1 /\ call'.raised = call.raised) =>
            LET family == {r \in lake_results : InFamilyOf(r.message_key, call.base_key)}
            IN IF family = {}
               THEN call'.pc = "returned" => call'.result = PyList(<<>>)
               ELSE call'.pc = "returned" /\ IsFamilyList(call'.result.list, family)]_vars

C20_Witness ==
    /\ call.pc = "returned"
    /\ call.op = "get_related_runs"
    /\ USE_LOCAL_STORE
    /\ Len(call.result.list) = 4
    /\ KeyOf(call.result.list[2]) = child_key(RootKey, 10)
    /\ KeyOf(call.result.list[3]) = child_key(RootKey, 2)
    /\ DOMAIN results = QueryKeys

\* ------------------------------------------------------------------------
\* C21..C30
\* ------------------------------------------------------------------------
\* C21: however often a failed user verdict with key R is processed (redelivered, or
\* handled again after a crash between two publishes), the i-th payload of every pass
\* has the key R_gen_i, every pass that gets to publish has built the keys
\* R_gen_1..R_gen_N, and the keys published for R are among these N keys.
C21_DeterministicKeys ==
    \A m \in validation_failure :
        LET R == Get(m, "message_key", <<"unknown">>)
            published == {t["message_key"] : t \in simulation}
        IN /\ \A n \in DOMAIN generator.tests :
                 generator.tests[n]["message_key"] = GenKey(R, n)
           /\ generator.pc = "publish" =>
                 {t["message_key"] : t \in Range(generator.tests)}
                    = {GenKey(R, i) : i \in 1..NUM_TESTS}
           /\ published \subseteq {GenKey(R, i) : i \in 1..NUM_TESTS}
           /\ Cardinality(published) <= NUM_TESTS

C21_Witness ==
    /\ redeliveries > 0
    /\ generator.pc = "publish"
    /\ NUM_TESTS = MaxNumTests
    /\ Cardinality({t["message_key"] : t \in simulation}) = NUM_TESTS
    /\ \E t \in simulation :
          /\ t["message_key"] = generator.tests[generator.next]["message_key"]
          /\ t # generator.tests[generator.next]

\* C22: two run requests on the simulation topic that are not the same request (or the
\* same child of one parent, published again) have different run keys.
C22_UniqueKeys ==
    \A a, b \in simulation :
        a["message_key"] = b["message_key"] =>
            \/ a = b
            \/ /\ a["source"] = "system" /\ b["source"] = "system"
               /\ a["parent_key"] = b["parent_key"]

\* the success_criteria of a result, as given (nothing where there is none)
GivenCriteria(r) ==
    LET config == IF "config" \in DOMAIN r THEN r["config"] ELSE <<>>
    IN IF "success_criteria" \in DOMAIN config THEN config["success_criteria"].dict ELSE <<>>

TargetMissing(r) == "target_value" \notin DOMAIN GivenCriteria(r)
TargetNotNumeric(r) ==
    ~TargetMissing(r) /\ ~Coercible(GivenCriteria(r)["target_value"])

\* the criterion field is in no row, or some row holds a value of it that is neither
\* null nor numeric
FieldMissing(r) == FieldValues(r) = {}
FieldNotNumeric(r) == \E v \in FieldValues(r) : ~IsNone(v) /\ ~Coercible(v)

\* the verdict of a validation-data error
FailedWithReason(r) ==
    /\ ~r["validation"].passed
    /\ r["validation"].calculated_value = PyNone
    /\ r["validation"].reason # ""

\* every result the Validator was given has come back with a verdict
AllValidated == \A m \in validatorDone : \E r \in Verdicts : Without(r, {"validation"}) = m

NumberFields(config) ==
    {<<"None", k>> : k \in {tk \in DOMAIN config :
                               /\ tk \notin {"success_criteria", "parameters"}
                               /\ (IsInt(config[tk]) \/ IsFloat(config[tk]))}}
    \cup (IF "parameters" \in DOMAIN config /\ IsDict(config["parameters"])
          THEN {<<"parameters", k>> : k \in {pk \in DOMAIN config["parameters"].dict :
                                               \/ IsInt(config["parameters"].dict[pk])
                                               \/ IsFloat(config["parameters"].dict[pk])}}
          ELSE {})

\* the value of a field of a config
FieldAt(config, path) ==
    IF path[1] = "None" THEN config[path[2]] ELSE config["parameters"].dict[path[2]]

\* what a number can become by a perturbation of pct percent, up or down
Perturbed(v, pcts) ==
    {IF IsInt(v) THEN PyInt(RoundHalfEven(v.int * (100 + d * pct), 100))
     ELSE PyFloat(RoundHalfEven(v.flt * (100 + d * pct), 100)) : pct \in pcts, d \in {-1, 1}}

\* the failed verdicts and, for each, the children built or published from it
ChildrenOf(m) ==
    {t \in simulation \cup Range(generator.tests) :
        t["parent_key"] = Get(m, "message_key", <<"unknown">>)}

\* C27: in the config of every generated child, for some k in 1..3, exactly min(k, |C|)
\* of the number fields C of the parent's config carry a wide perturbation (10..30 %)
\* of the parent's value and every other field of C a narrow one (2..20 %).
C27_WideSelection ==
    \A m \in validation_failure :
        \A t \in ChildrenOf(m) :
            LET config == Get(m, "config", <<>>)
                C == NumberFields(config)
            IN \E k \in 1..3 :
                  \E S \in {W \in SUBSET C : Cardinality(W) = Min(k, Cardinality(C))} :
                     /\ \A p \in S :
                           FieldAt(t["config"], p) \in Perturbed(FieldAt(config, p), Range(WidePct))
                     /\ \A p \in C \ S :
                           FieldAt(t["config"], p) \in Perturbed(FieldAt(config, p), Range(NarrowPct))

\* a value that is not a number: text, a boolean, null, a list, a mapping
NotANumber(v) == ~IsInt(v) /\ ~IsFloat(v)

\* C28: every field of the parent's config that is not a number, at top level or inside
\* parameters, has the same value in the config of every generated child.
C28_NonNumericUnchanged ==
    \A m \in validation_failure :
        \A t \in ChildrenOf(m) :
            LET config == Get(m, "config", <<>>) IN
            /\ \A k \in DOMAIN config :
                  (NotANumber(config[k]) /\ ~(k = "parameters" /\ IsDict(config[k]))) =>
                      k \in DOMAIN t["config"] /\ t["config"][k] = config[k]
            /\ ("parameters" \in DOMAIN config /\ IsDict(config["parameters"])) =>
                  \A pk \in DOMAIN config["parameters"].dict :
                      NotANumber(config["parameters"].dict[pk]) =>
                          /\ pk \in DOMAIN t["config"]["parameters"].dict
                          /\ t["config"]["parameters"].dict[pk] = config["parameters"].dict[pk]

\* ---- vocabulary of the background consumer ----
\* the positions of the polled messages the loop has dealt with
Processed == 1..(consumer.offset - 1)
PolledKey(i) == Get(consumer.polled[i].value.dict, "message_key", UnknownKey)
\* the add_result calls made for a run key, by position of their message
CallsFor(message_key) ==
    {i \in Processed : reaches_store(consumer.polled[i]) /\ PolledKey(i) = message_key}
StoredKeys == {PolledKey(i) : i \in {i \in Processed : reaches_store(consumer.polled[i])}}
LatestCall(message_key) ==
    CHOOSE i \in CallsFor(message_key) : \A j \in CallsFor(message_key) : j <= i
GoodPositions == {i \in Processed : consume_failure(consumer.polled[i]) = "none"}

\* C24: the background consumer loop survives every bad message: whatever was polled (a
\* Kafka error, a payload that is not UTF-8, not JSON, not a JSON object, or one that makes
\* the store raise), the loop is still running, each bad message was logged once and not
\* committed, a message that fails before the store leaves no trace in it, and every good
\* message, whatever came before it, was stored and committed.
C24_LoopSurvives ==
    /\ consumer.running
    /\ consumer.errors = Cardinality(Processed \ GoodPositions)
    /\ consumer.committed = IF GoodPositions = {} THEN 0
                            ELSE CHOOSE i \in GoodPositions : \A j \in GoodPositions : j <= i
    /\ DOMAIN results = StoredKeys
    /\ \A i \in GoodPositions :
          /\ PolledKey(i) \in DOMAIN results
          /\ LatestCall(PolledKey(i)) = i =>
                results[PolledKey(i)] = _flatten_result(consumer.polled[i].value.dict)

\* three bad messages of different kinds were dropped, and the good one after them is stored
C24_Witness ==
    /\ Len(consumer.polled) = 3
    /\ consumer.offset = 4
    /\ consumer.polled[1] = NotUtf8
    /\ consume_failure(consumer.polled[2]) = "TypeError"
    /\ consume_failure(consumer.polled[3]) = "none"
    /\ PolledKey(3) = child_key(RootKey, 1)
    /\ consumer.errors = 2
    /\ consumer.committed = 3
    /\ child_key(RootKey, 1) \in DOMAIN results

\* C26: idempotent overwrite in the store: after any sequence of add_result calls the store
\* holds one result per run key, the one of the latest call for that key; the timeseries of
\* the key are the points of that latest call and of no earlier one (all of its points when
\* the call returned, those before the offending point when it raised); and the family query
\* returns each stored key of the family once.
C26_IdempotentOverwrite ==
    /\ DOMAIN results = StoredKeys
    /\ DOMAIN timeseries = StoredKeys
    /\ \A message_key \in StoredKeys :
          LET latest == consumer.polled[LatestCall(message_key)]
              input_data == Get(latest.value.dict, "input_data", <<>>)
              points == timeseries[message_key]
              family == get_related_runs(results, message_key)
              base_key == base_key_of(message_key)
          IN /\ results[message_key] = _flatten_result(latest.value.dict)
             /\ Len(points) <= Len(input_data)
             /\ \A j \in DOMAIN points :
                   points[j] = timeseries_point(message_key, input_data[j])
             /\ consume_failure(latest) = "none" => Len(points) = Len(input_data)
             /\ points = local_timeseries(timeseries, message_key)
             /\ \A a, b \in DOMAIN family :
                   a # b => family[a]["message_key"] # family[b]["message_key"]
             /\ {family[a]["message_key"] : a \in DOMAIN family} =
                   {k \in StoredKeys : k = base_key \/ startswith(k, base_key \o <<GEN>>)}

\* a run key was stored twice, first with two points and then with one, and a variant of it
\* once: the store holds the single point of the second call
C26_Witness ==
    /\ consumer.offset = 4
    /\ CallsFor(RootKey) = {1, 2}
    /\ Len(Get(consumer.polled[1].value.dict, "input_data", <<>>)) = 2
    /\ consume_failure(consumer.polled[1]) = "none"
    /\ Len(Get(consumer.polled[2].value.dict, "input_data", <<>>)) = 1
    /\ CallsFor(child_key(RootKey, 1)) = {3}
    /\ Len(timeseries[RootKey]) = 1
    /\ Len(get_related_runs(results, RootKey)) = 2

\* C30: retry on empty: in get_related_runs an attempt whose query comes back empty is
\* followed by exactly what follows an attempt that raised (a sleep of RETRY_DELAY and
\* another attempt while attempt < MAX_RETRIES, the empty family after the last attempt),
\* an attempt whose query comes back non-empty returns these rows at once, and so a call
\* that queried returns the empty family only after MAX_RETRIES + 1 attempts and
\* MAX_RETRIES waits.
C30_RetryOnEmpty ==
    /\ [](/\ call.op = "get_related_runs"
          /\ call.pc = "returned"
          /\ ~USE_LOCAL_STORE
          /\ ~call.hit
          /\ call.result = PyList(<<>>)
          => call.queries = MAX_RETRIES + 1 /\ call.waits = MAX_RETRIES)
    /\ [][/\ call.op = "get_related_runs"
          /\ call.pc = "attempt"
          /\ call'.queries = call.queries + 1
          => LET rows == related_query(lake_results, call.base_key)
                 answered == call'.raised = call.raised
             IN IF answered /\ rows # <<>>
                THEN call'.pc = "returned" /\ call'.result = PyList(rows)
                ELSE IF call.attempt < MAX_RETRIES
                THEN call'.pc = "sleep" /\ call'.attempt = call.attempt
                ELSE call'.pc = "returned" /\ call'.result = PyList(<<>>)]_vars
    /\ [][call.pc = "sleep" /\ call' # call =>
             /\ call'.pc = "attempt"
             /\ call'.attempt = call.attempt + 1
             /\ clock' = clock + RETRY_DELAY]_vars

\* a call whose first query came back empty and whose second raised returned the family
\* that its third query found
C30_Witness ==
    /\ call.op = "get_related_runs"
    /\ call.pc = "returned"
    /\ ~call.hit
    /\ call.queries = 3
    /\ call.raised = 1
    /\ call.waits = 2
    /\ call.result # PyList(<<>>)

\* ---- vocabulary of the family shape ----
\* a family query of the API service returned a family with members
FamilyReturned ==
    /\ call.op = "get_related_runs"
    /\ call.pc = "returned"
    /\ call.result # PyList(<<>>)
MemberKeys == {call.result.list[i]["message_key"] : i \in DOMAIN call.result.list}
RootMembers == {k \in MemberKeys : ~contains_gen(k)}
\* key is root_gen_n for an n the Test Generator uses (1..NUM_TESTS), and the run request
\* with this key was created with parent_key root
VariantOf(key, root) ==
    /\ \E n \in 1..NUM_TESTS : key = child_key(root, n)
    /\ \E m \in simulation :
          /\ m["message_key"] = key
          /\ "parent_key" \in DOMAIN m
          /\ m["parent_key"] = root

InLookup(h) == handlers[h].pc = "read"
\* this step is the cache insert of handler h
Inserts(h) == handlers[h].pc = "insert" /\ handlers'[h].pc = "returned"

\* C23: the family cache is accessed under mutual exclusion: no handler's cache insert
\* happens while another handler is between the two steps of its cache lookup.
C23_MutualExclusion ==
    [][\A a, b \in DOMAIN handlers : a # b /\ Inserts(a) => ~InLookup(b)]_vars

\* C31: cache stability under concurrency: an entry of the family cache whose TTL has not
\* expired is not overwritten, by no invocation of get_related_runs whenever it started.
C31_CacheStable ==
    [][\A cache_key \in DOMAIN cache :
          is_fresh(cache[cache_key].cached_time, clock) =>
             cache'[cache_key] = cache[cache_key]]_vars

\* ---- vocabulary of the family resolution ----
\* the variants of the root the store of the family query holds
AskedVariants == {child_key(RootKey, 2), child_key(RootKey, 10)}

\* C32: family resolution does not depend on the member asked: on every content of the
\* local store and of the table of the data lake, the family query and the family result
\* for a variant R_gen_i are those for its root R; both have the base key R and the cache
\* key of R, and a call for a variant that the cache answers returns the entry of R.
C32_MemberIndependent ==
    /\ [](\A member \in AskedVariants :
          /\ base_key_of(member) = base_key_of(RootKey)
          /\ base_key_of(RootKey) = RootKey
          /\ cache_key_of(base_key_of(member)) = cache_key_of(base_key_of(RootKey))
          /\ get_related_runs(results, member) = get_related_runs(results, RootKey)
          /\ get_family_result(results, member) = get_family_result(results, RootKey)
          /\ related_query(lake_results, base_key_of(member)) =
                related_query(lake_results, base_key_of(RootKey))
          /\ family_result_of(related_query(lake_results, base_key_of(member))) =
                family_result_of(related_query(lake_results, base_key_of(RootKey))))
    /\ []((call.op = "get_related_runs" /\ call.message_key \in AskedVariants) =>
            /\ call.base_key = RootKey
            /\ call.hit => /\ cache_key_of(RootKey) \in DOMAIN cache
                           /\ call.result = PyList(cache[cache_key_of(RootKey)].cached_data))
    /\ [][(/\ calls' = calls + 1
           /\ call'.op = "get_related_runs"
           /\ call'.message_key \in AskedVariants
           /\ USE_LOCAL_STORE) =>
              /\ call'.pc = "returned"
              /\ call'.result = PyList(get_related_runs(results, RootKey))]_vars

\* the call for a variant was answered from the cache entry of the root, which holds the
\* root and both variants
C32_Witness ==
    /\ call.op = "get_related_runs"
    /\ call.pc = "returned"
    /\ call.message_key = child_key(RootKey, 10)
    /\ call.hit
    /\ Len(call.result.list) >= 3
    /\ KeyOf(call.result.list[1]) = RootKey

\* ---- vocabulary of the local store ----
\* the timeseries of every stored key are the points of its stored result, all of them
StoreConsistent ==
    \A message_key \in DOMAIN results :
        LET input_data == Get(results[message_key], "input_data", <<>>)
            points == local_timeseries(timeseries, message_key)
        IN /\ message_key \in DOMAIN timeseries
           /\ Len(points) = Len(input_data)
           /\ \A i \in DOMAIN points :
                 points[i] = timeseries_point(message_key, input_data[i])

C34_StoreBeforeCommit ==
    /\ consumer.committed > 0 =>
          consume_failure(consumer.polled[consumer.committed]) = "none"
    /\ \A i \in 1..consumer.committed :
          consume_failure(consumer.polled[i]) = "none" => PolledKey(i) \in DOMAIN results

\* ---- vocabulary of the lineage ----
\* row has the key and the source of the run request with its key
SameLineage(row) ==
    /\ \E m \in simulation : KeyOf(m) = KeyOf(row)
    /\ \A m \in simulation : KeyOf(m) = KeyOf(row) => row["source"] = m["source"]

C36_InputUnchanged ==
    /\ generator.pc # "idle" =>
          /\ generator.row \in validation_failure
          /\ \A i \in 1..Len(generator.tests) :
                \E m \in validation_failure :
                   generator.tests[i] =
                      new_payload(m, i, Get(generator.tests[i], "config", EmptyDict))
          /\ generator.tests # <<>> =>
                \E m \in validation_failure :
                   Get(generator.tests[Len(generator.tests)], "config", EmptyDict)
                      \in randomized_configs(Get(m, "config", EmptyDict))
    /\ generatorDone \subseteq validation_failure

C36_Witness ==
    \E m \in generatorDone :
       /\ generates_for(m)
       /\ Cardinality(simulation) >= 2
       /\ \A t \in simulation : Get(t, "config", EmptyDict) # Get(m, "config", EmptyDict)
       /\ \E t, u \in simulation : Get(t, "config", EmptyDict) # Get(u, "config", EmptyDict)

\* the names under which the fields of a message's verdict are stored
VerdictColumns(row) == {"validation_" \o key : key \in DOMAIN row["validation"]}

\* the two stores hold the same family of base_key: every key the local store holds has
\* exactly one row in the lake, made from the same message, and the lake holds no other
\* key of the family
SamePersisted(base_key) ==
    LET in_family(key) == key = base_key \/ startswith(key, base_key \o <<GEN>>)
        local == {key \in DOMAIN results : in_family(key)}
        lake == {r \in lake_results : in_family(Get(r, "message_key", <<>>))}
    IN /\ \A r \in lake : Get(r, "message_key", <<>>) \in local
       /\ \A key \in local :
             \E m \in Verdicts :
                /\ results[key] = _flatten_result(m)
                /\ {r \in lake : Get(r, "message_key", <<>>) = key}
                      = {flatten_for_results(m, clock)}

\* the key of the member get_family_result answers with (<<>> when it answers None)
MemberKey(result) ==
    IF IsNone(result) THEN <<>> ELSE Get(result.dict, "message_key", <<>>)

\* C37: the two storage modes agree on what the resolver reads: for every verdict-tagged
\* message LocalStore._flatten_result and the sink's flatten_for_results give the same
\* message_key and the same validation_<field> entries, and where the local store and the
\* lake hold the same family, get_family_result picks the member with the same key from
\* either, whichever member is asked for
C37_ModesAgree ==
    /\ \A m \in Verdicts :
          LET local == _flatten_result(m)
              lake == flatten_for_results(m, clock)
          IN /\ "message_key" \in DOMAIN local \cap DOMAIN lake
             /\ local["message_key"] = lake["message_key"]
             /\ VerdictColumns(m) \subseteq DOMAIN local \cap DOMAIN lake
             /\ \A name \in VerdictColumns(m) : local[name] = lake[name]
             /\ {"validation_passed", "validation_calculated_value"} \subseteq VerdictColumns(m)
    /\ \A message_key \in ModeKeys \cup {OtherKey} :
          SamePersisted(base_key_of(message_key)) =>
             LET local == family_result_of(get_related_runs(results, message_key))
                 lake == family_result_of(related_query(lake_results, base_key_of(message_key)))
             IN /\ IsNone(local) <=> IsNone(lake)
                /\ MemberKey(local) = MemberKey(lake)
                /\ ~IsNone(local) =>
                      /\ local.dict["_family_passed"] = lake.dict["_family_passed"]
                      /\ local.dict["_is_variant"] = lake.dict["_is_variant"]

\* both stores hold root and two variants, the root failed, both variants passed with the
\* same height, and the resolver answers with the first variant
C37_Witness ==
    /\ DOMAIN results = ModeKeys
    /\ SamePersisted(RootKey)
    /\ results[RootKey]["validation_passed"] = FALSE
    /\ \A i \in 1..2 : /\ results[child_key(RootKey, i)]["validation_passed"] = TRUE
                       /\ results[child_key(RootKey, i)]["validation_calculated_value"]
                             = PyFloat(FScale)
    /\ MemberKey(family_result_of(related_query(lake_results, RootKey))) = child_key(RootKey, 1)

\* row has a non-empty `validation` mapping that contains the key `passed`
HasVerdict(row) ==
    /\ "validation" \in DOMAIN row
    /\ ~IsNone(row["validation"])
    /\ ~IsList(row["validation"])
    /\ "passed" \in DOMAIN row["validation"]

====
